---- MODULE Spec2Model ----
(***************************************************************************)
(* Model of the relational record gateway of cost-calc-app (database.js):  *)
(* the statement builders of addToDB, getFromDB, updateInDB, deleteFromDB, *)
(* the error mapping handleError, the pooled-connection discipline and the *)
(* transaction helper executeTransaction, run against a small relational   *)
(* store.                                                                  *)
(***************************************************************************)
EXTENDS Integers, Sequences, FiniteSets, TLC

(***************************************************************************)
(* Bounds of the model.                                                    *)
(***************************************************************************)
NumProcs == 2
MaxId == 2
MaxSteps == 2
MaxCalls == 2

\* pool = new Pool({ ..., max: 20, ... })
PoolMax == 20

Procs == 1..NumProcs
Conns == 1..PoolMax

(***************************************************************************)
(* JavaScript values that reach the builders.  Every value is a record of  *)
(* one shape: t is the runtime type the builders inspect.                  *)
(*   "null"   : null                                                       *)
(*   "scalar" : the number v                                               *)
(*   "seq"    : the array vs of numbers                                    *)
(*   "obj"    : the object { operator: operator, value: v }                *)
(***************************************************************************)
Null == [t |-> "null", v |-> 0, vs |-> <<>>, operator |-> ""]
Scalar(n) == [t |-> "scalar", v |-> n, vs |-> <<>>, operator |-> ""]
Array(s) == [t |-> "seq", v |-> 0, vs |-> s, operator |-> ""]
Obj(o, n) == [t |-> "obj", v |-> n, vs |-> <<>>, operator |-> o]

\* JavaScript truthiness, as used by `if (limit)`, `if (orderBy)` and
\* `value.operator`.
Truthy(x) == CASE x.t = "null" -> FALSE
               [] x.t = "scalar" -> x.v # 0
               [] OTHER -> TRUE

\* A field mapping is the sequence of its entries in Object.entries order.
Entry(k, x) == [k |-> k, x |-> x]

(***************************************************************************)
(* Statement text.  A template string is the sequence of its pieces: a     *)
(* piece is either literal text (n = 0) or the placeholder `$n` (n > 0).   *)
(***************************************************************************)
Txt(s) == [s |-> s, n |-> 0]
Ph(n) == [s |-> "$", n |-> n]

RECURSIVE Join(_, _)
\* parts.join(sep) for a sequence of token sequences.
Join(parts, sep) ==
  IF Len(parts) = 0 THEN <<>>
  ELSE IF Len(parts) = 1 THEN parts[1]
  ELSE parts[1] \o <<sep>> \o Join(Tail(parts), sep)

RECURSIVE FlatValues(_)
\* The concatenation of a sequence of sequences.
FlatValues(parts) ==
  IF Len(parts) = 0 THEN <<>> ELSE parts[1] \o FlatValues(Tail(parts))

\* The placeholders of an array written without advancing the counter.
InPlaceholders_repeat(pc, len) == [i \in 1..len |-> <<Ph(pc)>>]

\* value.map(() => `$${paramCount++}`) for an array of length len starting
\* at counter value pc.
InPlaceholders(pc, len) == [i \in 1..len |-> <<Ph(pc + i - 1)>>]

\* A null condition taking a slot like a plain value.
Slots_nullTakesOne(x, structured) ==
  CASE x.t = "seq" -> Len(x.vs)
    [] OTHER -> 1

\* The number of parameter slots one WHERE condition consumes.
\* structured is TRUE in getFromDB, which knows the {operator, value} form.
Slots(x, structured) ==
  CASE x.t = "null" -> 0
    [] x.t = "seq" -> Len(x.vs)
    [] OTHER -> 1

\* The text one WHERE condition compiles to, with the counter at pc.
CondText(e, pc, structured) ==
  CASE e.x.t = "null" -> <<Txt(e.k), Txt("IS NULL")>>
    [] e.x.t = "seq" ->
         <<Txt(e.k), Txt("IN"), Txt("(")>>
           \o Join(InPlaceholders(pc, Len(e.x.vs)), Txt(","))
           \o <<Txt(")")>>
    [] e.x.t = "obj" /\ structured /\ e.x.operator # "" ->
         <<Txt(e.k), Txt(e.x.operator), Ph(pc)>>
    [] OTHER -> <<Txt(e.k), Txt("="), Ph(pc)>>

\* The values one WHERE condition pushes.
CondValues(e, structured) ==
  CASE e.x.t = "null" -> <<>>
    [] e.x.t = "seq" -> [i \in 1..Len(e.x.vs) |-> Scalar(e.x.vs[i])]
    [] e.x.t = "obj" /\ structured /\ e.x.operator # "" -> <<Scalar(e.x.v)>>
    [] OTHER -> <<e.x>>

\* The counter advanced by one per condition, whatever its form.
CounterAt_onePerCondition(conditions, i, pc, structured) == pc + (i - 1)

RECURSIVE CounterAt(_, _, _, _)
\* paramCount before the i-th condition when the loop started at pc.
CounterAt(conditions, i, pc, structured) ==
  IF i = 1 THEN pc
  ELSE CounterAt(conditions, i - 1, pc, structured)
         + Slots(conditions[i - 1].x, structured)

\* The loop `for (const [key, value] of Object.entries(conditions))`:
\* the whereConditions array, the pushed values and the final counter.
WhereLoop(conditions, pc, structured) ==
  [texts |-> [i \in 1..Len(conditions) |->
                CondText(conditions[i],
                         CounterAt(conditions, i, pc, structured), structured)],
   values |-> FlatValues([i \in 1..Len(conditions) |->
                CondValues(conditions[i], structured)]),
   pc |-> CounterAt(conditions, Len(conditions) + 1, pc, structured)]

(***************************************************************************)
(* The statement builders.  Each yields the statement text and the value   *)
(* list handed to client.query(query, values).                             *)
(***************************************************************************)
Stmt(q, vals) == [query |-> q, values |-> vals]

Keys(data) == [i \in 1..Len(data) |-> <<Txt(data[i].k)>>]
Values(data) == [i \in 1..Len(data) |-> data[i].x]

\* addToDB with the placeholders numbered from the index itself.
AddStmt_zeroBased(table, data, returnFields) ==
  Stmt(<<Txt("INSERT INTO"), Txt(table), Txt("(")>>
         \o Join(Keys(data), Txt(","))
         \o <<Txt(")"), Txt("VALUES"), Txt("(")>>
         \o Join([i \in 1..Len(data) |-> <<Ph(i - 1)>>], Txt(","))
         \o <<Txt(")"), Txt("RETURNING"), Txt(returnFields)>>,
       Values(data))

\* addToDB binding its values in the reverse of the column order.
AddStmt_reversed(table, data, returnFields) ==
  Stmt(<<Txt("INSERT INTO"), Txt(table), Txt("(")>>
         \o Join(Keys(data), Txt(","))
         \o <<Txt(")"), Txt("VALUES"), Txt("(")>>
         \o Join([i \in 1..Len(data) |-> <<Ph(i)>>], Txt(","))
         \o <<Txt(")"), Txt("RETURNING"), Txt(returnFields)>>,
       [i \in 1..Len(data) |-> data[Len(data) + 1 - i].x])

\* addToDB: columns, values and placeholders of the INSERT.
AddStmt(table, data, returnFields) ==
  Stmt(<<Txt("INSERT INTO"), Txt(table), Txt("(")>>
         \o Join(Keys(data), Txt(","))
         \o <<Txt(")"), Txt("VALUES"), Txt("(")>>
         \o Join([i \in 1..Len(data) |-> <<Ph(i)>>], Txt(","))
         \o <<Txt(")"), Txt("RETURNING"), Txt(returnFields)>>,
       Values(data))

\* LIMIT and OFFSET appended for every value that is not null.
LimitPart_notNull(word, x, pc) ==
  IF x.t # "null"
  THEN [text |-> <<Txt(word), Ph(pc)>>, values |-> <<x>>, pc |-> pc + 1]
  ELSE [text |-> <<>>, values |-> <<>>, pc |-> pc]

\* getFromDB: `if (limit) { query += LIMIT $n; values.push(limit) }`.
LimitPart(word, x, pc) ==
  IF Truthy(x) THEN [text |-> <<Txt(word), Ph(pc)>>, values |-> <<x>>, pc |-> pc + 1]
  ELSE [text |-> <<>>, values |-> <<>>, pc |-> pc]

\* getFromDB: the SELECT with WHERE, ORDER BY, LIMIT and OFFSET.
GetStmt(table, conditions, options) ==
  LET w == WhereLoop(conditions, 1, TRUE)
      where == IF Len(conditions) > 0
               THEN <<Txt("WHERE")>> \o Join(w.texts, Txt(options.operator))
               ELSE <<>>
      order == IF options.orderBy # ""
               THEN <<Txt("ORDER BY"), Txt(options.orderBy)>>
               ELSE <<>>
      lim == LimitPart("LIMIT", options.limit, w.pc)
      off == LimitPart("OFFSET", options.offset, lim.pc)
  IN Stmt(<<Txt("SELECT"), Txt(options.columns), Txt("FROM"), Txt(table)>>
            \o where \o order \o lim.text \o off.text,
          w.values \o lim.values \o off.values)

\* updateInDB: the SET loop; every field takes one slot.
SetClause(data) ==
  [i \in 1..Len(data) |-> <<Txt(data[i].k), Txt("="), Ph(i)>>]

\* updateInDB compiling its conditions as getFromDB does.
UpdateStmt_structured(table, data, conditions, returnFields) ==
  LET w == WhereLoop(conditions, Len(data) + 1, TRUE)
  IN Stmt(<<Txt("UPDATE"), Txt(table), Txt("SET")>>
            \o Join(SetClause(data), Txt(","))
            \o <<Txt("WHERE")>> \o Join(w.texts, Txt("AND"))
            \o <<Txt("RETURNING"), Txt(returnFields)>>,
          Values(data) \o w.values)

\* updateInDB: the UPDATE with SET and WHERE.
UpdateStmt(table, data, conditions, returnFields) ==
  LET w == WhereLoop(conditions, Len(data) + 1, FALSE)
  IN Stmt(<<Txt("UPDATE"), Txt(table), Txt("SET")>>
            \o Join(SetClause(data), Txt(","))
            \o <<Txt("WHERE")>> \o Join(w.texts, Txt("AND"))
            \o <<Txt("RETURNING"), Txt(returnFields)>>,
          Values(data) \o w.values)

\* deleteFromDB: the DELETE with WHERE.
DeleteStmt(table, conditions, returnFields) ==
  LET w == WhereLoop(conditions, 1, FALSE)
  IN Stmt(<<Txt("DELETE FROM"), Txt(table), Txt("WHERE")>>
            \o Join(w.texts, Txt("AND"))
            \o <<Txt("RETURNING"), Txt(returnFields)>>,
          w.values)

\* client.query("BEGIN"), ("COMMIT"), ("ROLLBACK").
Plain(word) == Stmt(<<Txt(word)>>, <<>>)

(***************************************************************************)
(* handleError.  An error is a record: code is the store's error code ("" *)
(* when the error has none), message its text, mapped tells whether it is  *)
(* an error thrown by handleError.                                         *)
(***************************************************************************)
Err(code, message) == [code |-> code, message |-> message, mapped |-> FALSE, wraps |-> ""]

\* handleError with the messages of 23503 and 23502 exchanged.
handleError_swapped(error) ==
  CASE error.code = "23505" ->
         [code |-> "", message |-> "Record with this identifier already exists",
          mapped |-> TRUE, wraps |-> ""]
    [] error.code = "23503" ->
         [code |-> "", message |-> "Required field is missing",
          mapped |-> TRUE, wraps |-> ""]
    [] error.code = "23502" ->
         [code |-> "", message |-> "Referenced record does not exist",
          mapped |-> TRUE, wraps |-> ""]
    [] error.code = "42P01" ->
         [code |-> "", message |-> "Table does not exist",
          mapped |-> TRUE, wraps |-> ""]
    [] OTHER ->
         [code |-> "", message |-> "Database operation failed: ",
          mapped |-> TRUE, wraps |-> error.message]

\* handleError without its case for unique violations.
handleError_noDuplicate(error) ==
  CASE error.code = "23503" ->
         [code |-> "", message |-> "Referenced record does not exist",
          mapped |-> TRUE, wraps |-> ""]
    [] error.code = "23502" ->
         [code |-> "", message |-> "Required field is missing",
          mapped |-> TRUE, wraps |-> ""]
    [] error.code = "42P01" ->
         [code |-> "", message |-> "Table does not exist",
          mapped |-> TRUE, wraps |-> ""]
    [] OTHER ->
         [code |-> "", message |-> "Database operation failed: ",
          mapped |-> TRUE, wraps |-> error.message]

\* The error handleError throws for an input error: message by code, and
\* for the default branch the original message behind a fixed prefix.
handleError(error) ==
  CASE error.code = "23505" ->
         [code |-> "", message |-> "Record with this identifier already exists",
          mapped |-> TRUE, wraps |-> ""]
    [] error.code = "23503" ->
         [code |-> "", message |-> "Referenced record does not exist",
          mapped |-> TRUE, wraps |-> ""]
    [] error.code = "23502" ->
         [code |-> "", message |-> "Required field is missing",
          mapped |-> TRUE, wraps |-> ""]
    [] error.code = "42P01" ->
         [code |-> "", message |-> "Table does not exist",
          mapped |-> TRUE, wraps |-> ""]
    [] OTHER ->
         [code |-> "", message |-> "Database operation failed: ",
          mapped |-> TRUE, wraps |-> error.message]

(***************************************************************************)
(* The relational store behind client.query: one table with the columns   *)
(* id (unique, not null) and status (nullable).  It reads the statement    *)
(* text it is sent and binds placeholder $n to values[n].                  *)
(***************************************************************************)
TableName == "designs"
Columns == {"id", "status"}
Operators == {"=", ">"}

IsScalar(x) == x.t = "scalar"
Bindable(x) == x.t \in {"scalar", "null"}

\* The position of the first piece of text `word` in q, 0 when absent.
IndexOf(q, word) ==
  LET hits == {i \in 1..Len(q) : q[i].n = 0 /\ q[i].s = word}
  IN IF hits = {} THEN 0 ELSE CHOOSE i \in hits : \A j \in hits : i <= j

\* The pieces of q strictly between positions a and b.
Between(q, a, b) == IF b - a <= 1 THEN <<>> ELSE SubSeq(q, a + 1, b - 1)

RECURSIVE Split(_, _)
\* q cut at every piece of text that is in seps.
Split(q, seps) ==
  IF q = <<>> THEN << <<>> >>
  ELSE LET r == Split(Tail(q), seps)
       IN IF Head(q).n = 0 /\ Head(q).s \in seps
          THEN << <<>> >> \o r
          ELSE << <<Head(q)>> \o r[1] >> \o Tail(r)

\* The placeholder numbers that occur in q, left to right.
PlaceholderNumbers(q) ==
  LET phs == SelectSeq(q, LAMBDA tk : tk.n > 0)
  IN [i \in 1..Len(phs) |-> phs[i].n]

\* The end of the WHERE region: the first of ORDER BY, LIMIT, OFFSET,
\* RETURNING, or the end of the text.
WhereEnd(q) ==
  LET ends == {i \in 1..Len(q) : q[i].n = 0 /\
                 q[i].s \in {"ORDER BY", "LIMIT", "OFFSET", "RETURNING"}}
  IN IF ends = {} THEN Len(q) + 1 ELSE CHOOSE i \in ends : \A j \in ends : i <= j

\* The joiner of the WHERE region and its clauses.
WhereJoiner(q) == IF IndexOf(q, "OR") > 0 THEN "OR" ELSE "AND"
WhereClauses(q) ==
  IF IndexOf(q, "WHERE") = 0 THEN <<>>
  ELSE Split(Between(q, IndexOf(q, "WHERE"), WhereEnd(q)), {"AND", "OR"})

\* A well-formed comparison clause: column IS NULL, column IN ( $.. ),
\* column operator $n.
ClauseWellFormed(c) ==
  /\ Len(c) >= 2
  /\ c[1].n = 0 /\ c[1].s \in Columns
  /\ \/ Len(c) = 2 /\ c[2] = Txt("IS NULL")
     \/ /\ Len(c) >= 5 /\ c[2] = Txt("IN") /\ c[3] = Txt("(") /\ c[Len(c)] = Txt(")")
        /\ \A i \in 4..(Len(c) - 1) : IF i % 2 = 0 THEN c[i].n > 0 ELSE c[i] = Txt(",")
        /\ Len(c) % 2 = 1
     \/ Len(c) = 3 /\ c[2].n = 0 /\ c[2].s \in Operators /\ c[3].n > 0

\* Whether row r satisfies clause c under the bound values vals; a
\* comparison with NULL on either side is not satisfied.
ClauseHolds(c, vals, r) ==
  LET cell == r[c[1].s]
  IN IF c[2] = Txt("IS NULL") THEN cell.t = "null"
     ELSE IF c[2] = Txt("IN")
     THEN \E i \in 4..(Len(c) - 1) :
             c[i].n > 0 /\ IsScalar(cell) /\ IsScalar(vals[c[i].n])
               /\ cell.v = vals[c[i].n].v
     ELSE /\ IsScalar(cell) /\ IsScalar(vals[c[3].n])
          /\ IF c[2].s = ">" THEN cell.v > vals[c[3].n].v
                             ELSE cell.v = vals[c[3].n].v

\* The rows of tbl the WHERE region of q selects.
Matching(q, vals, tbl) ==
  LET cs == WhereClauses(q)
  IN IF Len(cs) = 0 THEN tbl
     ELSE IF WhereJoiner(q) = "OR"
     THEN {r \in tbl : \E i \in 1..Len(cs) : ClauseHolds(cs[i], vals, r)}
     ELSE {r \in tbl : \A i \in 1..Len(cs) : ClauseHolds(cs[i], vals, r)}

\* The column list and the placeholder list of an INSERT.
InsertColumns(q) ==
  LET a == IndexOf(q, "(")
      b == IndexOf(q, ")")
      parts == Split(Between(q, a, b), {","})
  IN IF b - a <= 1 THEN <<>> ELSE parts
InsertParams(q) ==
  LET v == IndexOf(q, "VALUES")
      r == IndexOf(q, "RETURNING")
      inner == Between(q, v + 1, r - 1)
  IN IF inner = <<>> THEN <<>> ELSE Split(inner, {","})

\* The assignments of the SET region of an UPDATE.
SetParts(q) == Split(Between(q, IndexOf(q, "SET"), IndexOf(q, "WHERE")), {","})

AssignWellFormed(a) ==
  Len(a) = 3 /\ a[1].n = 0 /\ a[1].s \in Columns /\ a[2] = Txt("=") /\ a[3].n > 0

\* LIMIT $n and OFFSET $n of a SELECT: the bound number, -1 when absent.
BoundAfter(q, vals, word) ==
  LET i == IndexOf(q, word)
  IN IF i = 0 THEN -1 ELSE vals[q[i + 1].n].v

\* All orders in which the rows of set S can be returned.
RECURSIVE Orderings(_)
Orderings(S) ==
  IF S = {} THEN {<<>>}
  ELSE UNION {{<<r>> \o rest : rest \in Orderings(S \ {r})} : r \in S}

\* The rows of S by ascending id.
RECURSIVE ById(_)
ById(S) ==
  IF S = {} THEN <<>>
  ELSE LET r == CHOOSE x \in S : \A y \in S : x.id.v <= y.id.v
       IN <<r>> \o ById(S \ {r})

\* rows after OFFSET off and LIMIT lim (-1: absent).
Window(rows, lim, off) ==
  LET from == IF off < 0 THEN 1 ELSE off + 1
      rest == IF from > Len(rows) THEN <<>> ELSE SubSeq(rows, from, Len(rows))
  IN IF lim < 0 \/ lim >= Len(rest) THEN rest ELSE SubSeq(rest, 1, lim)

\* The row an INSERT stores: listed columns from the bound values, the
\* others NULL.
InsertedRow(q, vals) ==
  LET cols == InsertColumns(q)
      prms == InsertParams(q)
  IN [c \in Columns |->
        IF \E i \in 1..Len(cols) : cols[i][1].s = c
        THEN LET i == CHOOSE i \in 1..Len(cols) : cols[i][1].s = c
             IN vals[prms[i][1].n]
        ELSE Null]

\* Row r after the assignments of the SET region.
UpdatedRow(q, vals, r) ==
  LET sets == SetParts(q)
  IN [c \in Columns |->
        IF \E i \in 1..Len(sets) : sets[i][1].s = c
        THEN LET i == CHOOSE i \in 1..Len(sets) : sets[i][1].s = c
             IN vals[sets[i][3].n]
        ELSE r[c]]

\* The table after an UPDATE.
UpdatedTable(q, vals, tbl) ==
  LET m == Matching(q, vals, tbl)
  IN (tbl \ m) \cup {UpdatedRow(q, vals, r) : r \in m}

\* The SQLSTATE the store answers statement st with on table tbl, "" when
\* the statement runs: syntax, relation, parameters, types, constraints.
StoreCode(st, tbl) ==
  LET q == st.query
      vals == st.values
      verb == q[1].s
      cs == WhereClauses(q)
      nums == PlaceholderNumbers(q)
  IN CASE verb \in {"BEGIN", "COMMIT", "ROLLBACK"} -> ""
       [] verb = "INSERT INTO" /\
            (\/ InsertColumns(q) = <<>>
             \/ Len(InsertColumns(q)) # Len(InsertParams(q))
             \/ \E i \in 1..Len(InsertColumns(q)) :
                  \/ Len(InsertColumns(q)[i]) # 1
                  \/ InsertColumns(q)[i][1].s \notin Columns
                  \/ Len(InsertParams(q)[i]) # 1
                  \/ InsertParams(q)[i][1].n = 0) -> "42601"
       [] verb = "UPDATE" /\
            \E i \in 1..Len(SetParts(q)) : ~AssignWellFormed(SetParts(q)[i]) -> "42601"
       [] \E i \in 1..Len(cs) : ~ClauseWellFormed(cs[i]) -> "42601"
       [] (IF verb = "SELECT" THEN q[4].s ELSE q[2].s) # TableName -> "42P01"
       [] {nums[i] : i \in 1..Len(nums)} # 1..Len(vals) -> "08P01"
       [] \E i \in 1..Len(vals) : ~Bindable(vals[i]) -> "22P02"
       [] verb = "INSERT INTO" /\ InsertedRow(q, vals).id.t = "null" -> "23502"
       [] verb = "INSERT INTO" /\
            (\E r \in tbl : r.id = InsertedRow(q, vals).id) -> "23505"
       [] verb = "UPDATE" /\
            (\E r \in UpdatedTable(q, vals, tbl) : r.id.t = "null") -> "23502"
       [] verb = "UPDATE" /\
            (\/ Cardinality(UpdatedTable(q, vals, tbl)) # Cardinality(tbl)
             \/ \E r1, r2 \in UpdatedTable(q, vals, tbl) :
                  r1 # r2 /\ r1.id = r2.id) -> "23505"
       [] OTHER -> ""

\* The answers the store can give to statement st on table tbl: the
\* error code (ok = FALSE), or the returned rows and the table afterwards.
Answer(ok, code, rows, tbl) == [ok |-> ok, code |-> code, rows |-> rows, table |-> tbl]

StoreAnswers(st, tbl) ==
  LET q == st.query
      vals == st.values
      verb == q[1].s
      code == StoreCode(st, tbl)
      m == Matching(q, vals, tbl)
  IN IF code # "" THEN {Answer(FALSE, code, <<>>, tbl)}
     ELSE CASE verb = "INSERT INTO" ->
                 {Answer(TRUE, "", <<InsertedRow(q, vals)>>,
                         tbl \cup {InsertedRow(q, vals)})}
            [] verb = "UPDATE" ->
                 {Answer(TRUE, "", rows, UpdatedTable(q, vals, tbl)) :
                    rows \in Orderings({UpdatedRow(q, vals, r) : r \in m})}
            [] verb = "DELETE FROM" ->
                 {Answer(TRUE, "", rows, tbl \ m) : rows \in Orderings(m)}
            [] verb = "SELECT" ->
                 {Answer(TRUE, "",
                         Window(rows, BoundAfter(q, vals, "LIMIT"),
                                BoundAfter(q, vals, "OFFSET")), tbl) :
                    rows \in IF IndexOf(q, "ORDER BY") > 0
                             THEN {ById(m)} ELSE Orderings(m)}
            [] OTHER -> {Answer(TRUE, "", <<>>, tbl)}

(***************************************************************************)
(* State of the running program.                                           *)
(***************************************************************************)
VARIABLES
  pc,        \* per caller: where its call stands ("idle", awaiting
             \* "connect", awaiting a "query", "begin", "step", "commit",
             \* "rollback", or "done")
  call,      \* per caller: the operation called and its arguments
  client,    \* per caller: the pooled connection it holds, 0 when none
  sent,      \* per caller: the statements its call passed to client.query
  acquired,  \* per caller: how many connections pool.connect() gave its call
  released,  \* per caller: how often its call ran client.release()
  caught,    \* per caller: the error its catch block received
  outcome,   \* per caller: what the call returned or threw
  table,     \* the committed rows of the table
  txn,       \* per connection: the open transaction, if any
  built,     \* the last statement built by the builders on their own
  conv,      \* the column conversion under way: its input and its results
  invoked,   \* how many gateway calls have been made so far
  ended,     \* whether pool.end() has been called
  leaked,    \* the connections checked out by calls that are over
  others,    \* how many connections the operations of other callers hold
  http,      \* per caller: the HTTP request it serves and where its handler stands
  sheet,     \* the rows of the Designs sheet: the design id of each row
  bucket     \* how many objects the S3 bucket holds

\* The pool beyond the connections the callers hold.
poolState == <<ended, leaked, others>>

\* What the HTTP handlers keep outside the relational store.
web == <<http, sheet, bucket>>

vars == <<pc, call, client, sent, acquired, released, caught, outcome, table, txn,
          built, conv, invoked, poolState, web>>

NoErr == [code |-> "", message |-> "", mapped |-> FALSE, wraps |-> ""]
Pending == [status |-> "none", rows |-> <<>>, error |-> NoErr]
Returned(rows) == [status |-> "returned", rows |-> rows, error |-> NoErr]
Thrown(e) == [status |-> "thrown", rows |-> <<>>, error |-> e]

NoTxn == [active |-> FALSE, base |-> {}, work |-> {}]

DefaultOptions ==
  [columns |-> "*", orderBy |-> "", limit |-> Null, offset |-> Null, operator |-> "AND"]

\* A call: the function and its arguments (those it does not take empty).
Call(op, data, conditions, options, steps) ==
  [op |-> op, data |-> data, conditions |-> conditions, options |-> options,
   steps |-> steps]
NoCall == Call("none", <<>>, <<>>, DefaultOptions, <<>>)
NoBuild == [op |-> "none", data |-> <<>>, conditions |-> <<>>,
            options |-> DefaultOptions, stmt |-> Stmt(<<>>, <<>>)]

\* The errors the functions construct themselves.
UpdateUnscoped == Err("", "Update conditions are required to prevent updating all records")
DeleteUnscoped == Err("", "Delete conditions are required to prevent deleting all records")
NoData == Err("", "No data provided for update")
NoMatch == Err("", "No records found matching the update conditions")
NoRecordReturned == Err("", "Insert operation failed - no record returned")
StepFailed == Err("", "operations callback failed")

\* The errors that come from the driver.
StoreErr(code) == Err(code, "error reported by the store")
ConnectionLost == Err("", "Connection terminated unexpectedly")
ConnectTimeout == Err("", "timeout exceeded when trying to connect")
PoolEnded == Err("", "Cannot use a pool after calling end on the pool")
EndedTwice == Err("", "Called end on pool more than once")
DrainFailed == Err("", "the pool could not be drained")

\* The codes a statement can fail with for reasons outside the table
\* modelled here: a lost connection (no code), a foreign key of the real
\* schema, a relation that is missing.
FaultCodes == {"", "23503", "42P01"}

\* The table a statement on connection c sees.
Visible(c) == IF txn[c].active THEN txn[c].work ELSE table

\* What client.query(st) on connection c can resolve or reject with.
Faults(verb) ==
  CASE verb \in {"INSERT INTO", "UPDATE"} -> FaultCodes
    [] verb \in {"SELECT", "DELETE FROM"} -> FaultCodes \ {"23503"}
    [] OTHER -> {""}

QueryAnswers(c, st) ==
  StoreAnswers(st, Visible(c))
    \cup {Answer(FALSE, code, <<>>, Visible(c)) : code \in Faults(st.query[1].s)}

QueryError(a) == IF a.code = "" THEN ConnectionLost ELSE StoreErr(a.code)

\* The store after answer a to a statement with verb `verb` on connection c.
\* A statement that fails changes nothing; when the connection is lost the
\* store ends the transaction that was open on it.
StoreAfter(c, verb, a) ==
  IF ~a.ok
  THEN [table |-> table,
        txn |-> IF a.code = "" THEN [txn EXCEPT ![c] = NoTxn] ELSE txn]
  ELSE CASE verb = "BEGIN" ->
              [table |-> table,
               txn |-> IF txn[c].active THEN txn
                       ELSE [txn EXCEPT ![c] = [active |-> TRUE, base |-> table,
                                                work |-> table]]]
         [] verb = "COMMIT" ->
              [table |-> IF txn[c].active THEN txn[c].work ELSE table,
               txn |-> [txn EXCEPT ![c] = NoTxn]]
         [] verb = "ROLLBACK" ->
              [table |-> table, txn |-> [txn EXCEPT ![c] = NoTxn]]
         [] OTHER ->
              IF txn[c].active
              THEN [table |-> table, txn |-> [txn EXCEPT ![c].work = a.table]]
              ELSE [table |-> a.table, txn |-> txn]

\* COMMIT of a transaction whose base is no longer the committed table
\* fails with a serialization failure.
CommitAnswers(c) ==
  IF txn[c].active /\ txn[c].base # table
  THEN {Answer(FALSE, "40001", <<>>, table)}
  ELSE {Answer(TRUE, "", <<>>, table)}
         \cup {Answer(FALSE, code, <<>>, table) : code \in {""}}

\* pool.connect() hands out a connection no caller holds, as long as
\* fewer than `max` connections are checked out.
Idle == Conns \ ({client[p] : p \in Procs} \cup leaked)
Held == (PoolMax - Cardinality(Idle)) + others
NextIdle == CHOOSE c \in Idle : \A d \in Idle : c <= d

(***************************************************************************)
(* The pieces every gateway function shares.                               *)
(***************************************************************************)
Last(q) == q[Len(q)]

\* `finally { client.release(); }`: the number of release() calls after it.
Release(n) == n + 1

\* The call of p ends: its promise settles with out after the catch block
\* received err (NoErr when nothing was thrown), and the finally block runs.
Settle(p, out, err) ==
  /\ outcome' = [outcome EXCEPT ![p] = out]
  /\ caught' = [caught EXCEPT ![p] = err]
  /\ released' = [released EXCEPT ![p] = Release(released[p])]
  /\ client' = [client EXCEPT ![p] = 0]
  /\ pc' = [pc EXCEPT ![p] = "done"]

\* The catch block without a finally block after it.
Fail_noRelease(p, err) ==
  /\ outcome' = [outcome EXCEPT ![p] = Thrown(handleError(err))]
  /\ caught' = [caught EXCEPT ![p] = err]
  /\ pc' = [pc EXCEPT ![p] = "done"]
  /\ UNCHANGED <<released, client>>

\* `catch (error) { handleError(op, error, ...) } finally { release }`.
Fail(p, err) == Settle(p, Thrown(handleError(err)), err)

\* `await client.query(st)` on the connection c: the statement is sent and
\* the function waits at position at.
Send(p, st, at) ==
  /\ sent' = [sent EXCEPT ![p] = Append(sent[p], st)]
  /\ pc' = [pc EXCEPT ![p] = at]

\* The functions that run statements for their callers.
GatewayOps ==
  {"addToDB", "getFromDB", "updateInDB", "deleteFromDB", "executeTransaction"}

\* A caller invokes a function; it runs up to its first await, which is
\* `await pool.connect()`, or `await pool.end()` in closeConnection.
Begin(p, c) ==
  /\ pc' = [pc EXCEPT ![p] = IF c.op # "closeConnection" THEN "connect"
                               ELSE IF ended THEN "endTwice" ELSE "end"]
  /\ ended' = (ended \/ c.op = "closeConnection")
  /\ call' = [call EXCEPT ![p] = c]
  /\ sent' = [sent EXCEPT ![p] = <<>>]
  /\ acquired' = [acquired EXCEPT ![p] = 0]
  /\ released' = [released EXCEPT ![p] = 0]
  /\ caught' = [caught EXCEPT ![p] = NoErr]
  /\ outcome' = [outcome EXCEPT ![p] = Pending]

\* A caller of the module invokes one of its functions.
Invoke(p, c) ==
  /\ pc[p] \in {"idle", "done"}
  /\ http[p].at = "none"
  /\ invoked < MaxCalls
  /\ invoked' = invoked + 1
  /\ Begin(p, c)
  /\ UNCHANGED <<client, table, txn, built, conv, leaked, others, web>>

\* pool.connect() rejects; the call is outside every try block, so the
\* rejection leaves the function as it is.
ConnectError == IF ended THEN PoolEnded ELSE ConnectTimeout

ConnectFails(p) ==
  /\ pc[p] = "connect"
  /\ call[p].op \in GatewayOps
  /\ pc' = [pc EXCEPT ![p] = "done"]
  /\ outcome' = [outcome EXCEPT ![p] = Thrown(ConnectError)]
  /\ UNCHANGED <<call, client, sent, acquired, released, caught, table, txn, built, conv, invoked, poolState, web>>

\* pool.connect() resolving whatever the number of connections in use.
Connected_unbounded(p, op) ==
  /\ pc[p] = "connect"
  /\ call[p].op = op
  /\ ~ended
  /\ acquired' = [acquired EXCEPT ![p] = acquired[p] + 1]

\* pool.connect() resolves for a call of function op: the call has a
\* connection from here on.
Connected(p, op) ==
  /\ pc[p] = "connect"
  /\ call[p].op = op
  /\ ~ended
  /\ Held < PoolMax
  /\ acquired' = [acquired EXCEPT ![p] = acquired[p] + 1]

(***************************************************************************)
(* addToDB                                                                 *)
(***************************************************************************)
\* `if (result.rows.length === 0) throw ...`: the error thrown on the
\* returned rows, NoErr when none is.
AddThrows(rows) == IF Len(rows) = 0 THEN NoRecordReturned ELSE NoErr

addToDB_connected(p) ==
  /\ Connected(p, "addToDB")
  /\ client' = [client EXCEPT ![p] = NextIdle]
  /\ Send(p, AddStmt(TableName, call[p].data, "*"), "query")
  /\ UNCHANGED <<call, released, caught, outcome, table, txn, built, conv, invoked, poolState, web>>

addToDB_answered(p) ==
  /\ pc[p] = "query"
  /\ call[p].op = "addToDB"
  /\ \E a \in QueryAnswers(client[p], Last(sent[p])) :
       /\ table' = StoreAfter(client[p], Last(sent[p]).query[1].s, a).table
       /\ txn' = StoreAfter(client[p], Last(sent[p]).query[1].s, a).txn
       /\ IF ~a.ok THEN Fail(p, QueryError(a))
          ELSE IF AddThrows(a.rows) # NoErr THEN Fail(p, AddThrows(a.rows))
          ELSE Settle(p, Returned(<<a.rows[1]>>), NoErr)
  /\ UNCHANGED <<call, sent, acquired, built, conv, invoked, poolState, web>>

(***************************************************************************)
(* getFromDB                                                               *)
(***************************************************************************)
\* `return result.rows;` with no check of the rows.
GetThrows(rows) == NoErr

getFromDB_connected(p) ==
  /\ Connected(p, "getFromDB")
  /\ client' = [client EXCEPT ![p] = NextIdle]
  /\ Send(p, GetStmt(TableName, call[p].conditions, call[p].options), "query")
  /\ UNCHANGED <<call, released, caught, outcome, table, txn, built, conv, invoked, poolState, web>>

getFromDB_answered(p) ==
  /\ pc[p] = "query"
  /\ call[p].op = "getFromDB"
  /\ \E a \in QueryAnswers(client[p], Last(sent[p])) :
       /\ table' = StoreAfter(client[p], Last(sent[p]).query[1].s, a).table
       /\ txn' = StoreAfter(client[p], Last(sent[p]).query[1].s, a).txn
       /\ IF ~a.ok THEN Fail(p, QueryError(a))
          ELSE IF GetThrows(a.rows) # NoErr THEN Fail(p, GetThrows(a.rows))
          ELSE Settle(p, Returned(a.rows), NoErr)
  /\ UNCHANGED <<call, sent, acquired, built, conv, invoked, poolState, web>>

(***************************************************************************)
(* updateInDB                                                              *)
(***************************************************************************)
\* updateInDB checking its data only.
UpdateRejects_dataOnly(data, conditions) ==
  IF Len(data) = 0 THEN NoData ELSE NoErr

\* The error the checks at the head of updateInDB throw, NoErr when the
\* arguments pass.
UpdateRejects(data, conditions) ==
  IF Len(conditions) = 0 THEN UpdateUnscoped
  ELSE IF Len(data) = 0 THEN NoData
  ELSE NoErr

\* `if (result.rows.length === 0) throw ...`.
UpdateThrows(rows) == IF Len(rows) = 0 THEN NoMatch ELSE NoErr

updateInDB_connected(p) ==
  /\ Connected(p, "updateInDB")
  /\ IF UpdateRejects(call[p].data, call[p].conditions) # NoErr
     THEN /\ Fail(p, UpdateRejects(call[p].data, call[p].conditions))
          /\ UNCHANGED <<call, sent, table, txn, built, conv, invoked, poolState, web>>
     ELSE /\ client' = [client EXCEPT ![p] = NextIdle]
          /\ Send(p, UpdateStmt(TableName, call[p].data, call[p].conditions, "*"),
                  "query")
          /\ UNCHANGED <<call, released, caught, outcome, table, txn, built, conv, invoked, poolState, web>>

updateInDB_answered(p) ==
  /\ pc[p] = "query"
  /\ call[p].op = "updateInDB"
  /\ \E a \in QueryAnswers(client[p], Last(sent[p])) :
       /\ table' = StoreAfter(client[p], Last(sent[p]).query[1].s, a).table
       /\ txn' = StoreAfter(client[p], Last(sent[p]).query[1].s, a).txn
       /\ IF ~a.ok THEN Fail(p, QueryError(a))
          ELSE IF UpdateThrows(a.rows) # NoErr THEN Fail(p, UpdateThrows(a.rows))
          ELSE Settle(p, Returned(a.rows), NoErr)
  /\ UNCHANGED <<call, sent, acquired, built, conv, invoked, poolState, web>>

(***************************************************************************)
(* deleteFromDB                                                            *)
(***************************************************************************)
\* The error the check at the head of deleteFromDB throws.
DeleteRejects(conditions) ==
  IF Len(conditions) = 0 THEN DeleteUnscoped ELSE NoErr

\* deleteFromDB treating zero rows as updateInDB does.
DeleteThrows_zeroRows(rows) == IF Len(rows) = 0 THEN NoMatch ELSE NoErr

\* `return result.rows;` with no check of the rows.
DeleteThrows(rows) == NoErr

deleteFromDB_connected(p) ==
  /\ Connected(p, "deleteFromDB")
  /\ IF DeleteRejects(call[p].conditions) # NoErr
     THEN /\ Fail(p, DeleteRejects(call[p].conditions))
          /\ UNCHANGED <<call, sent, table, txn, built, conv, invoked, poolState, web>>
     ELSE /\ client' = [client EXCEPT ![p] = NextIdle]
          /\ Send(p, DeleteStmt(TableName, call[p].conditions, "*"), "query")
          /\ UNCHANGED <<call, released, caught, outcome, table, txn, built, conv, invoked, poolState, web>>

deleteFromDB_answered(p) ==
  /\ pc[p] = "query"
  /\ call[p].op = "deleteFromDB"
  /\ \E a \in QueryAnswers(client[p], Last(sent[p])) :
       /\ table' = StoreAfter(client[p], Last(sent[p]).query[1].s, a).table
       /\ txn' = StoreAfter(client[p], Last(sent[p]).query[1].s, a).txn
       /\ IF ~a.ok THEN Fail(p, QueryError(a))
          ELSE IF DeleteThrows(a.rows) # NoErr THEN Fail(p, DeleteThrows(a.rows))
          ELSE Settle(p, Returned(a.rows), NoErr)
  /\ UNCHANGED <<call, sent, acquired, built, conv, invoked, poolState, web>>

(***************************************************************************)
(* executeTransaction.  The caller's `operations` callback is the sequence *)
(* call.steps: a step is a field mapping to INSERT through the client it   *)
(* is given, or the callback throwing an error of its own.                 *)
(***************************************************************************)
InsertStep(data) == [kind |-> "insert", data |-> data]
ThrowStep == [kind |-> "throw", data |-> <<>>]

\* The catch block sending COMMIT.
Rollback_commits(p, err) ==
  /\ caught' = [caught EXCEPT ![p] = err]
  /\ Send(p, Plain("COMMIT"), "rollback")

\* The catch block: `await client.query("ROLLBACK")` with err in hand.
Rollback(p, err) ==
  /\ caught' = [caught EXCEPT ![p] = err]
  /\ Send(p, Plain("ROLLBACK"), "rollback")

\* The body after BEGIN, or after the i-th step, succeeded: the callback
\* runs to its next client.query, throws, or returns and COMMIT is sent.
Proceed(p, i) ==
  IF i = Len(call[p].steps)
  THEN /\ Send(p, Plain("COMMIT"), "commit")
       /\ UNCHANGED caught
  ELSE IF call[p].steps[i + 1].kind = "throw"
  THEN Rollback(p, StepFailed)
  ELSE /\ Send(p, AddStmt(TableName, call[p].steps[i + 1].data, "*"), "step")
       /\ UNCHANGED caught

executeTransaction_connected(p) ==
  /\ Connected(p, "executeTransaction")
  /\ client' = [client EXCEPT ![p] = NextIdle]
  /\ Send(p, Plain("BEGIN"), "begin")
  /\ UNCHANGED <<call, released, caught, outcome, table, txn, built, conv, invoked, poolState, web>>

executeTransaction_begun(p) ==
  /\ pc[p] = "begin"
  /\ \E a \in QueryAnswers(client[p], Plain("BEGIN")) :
       /\ table' = StoreAfter(client[p], "BEGIN", a).table
       /\ txn' = StoreAfter(client[p], "BEGIN", a).txn
       /\ IF a.ok THEN Proceed(p, 0) ELSE Rollback(p, QueryError(a))
  /\ UNCHANGED <<call, client, acquired, released, outcome, built, conv, invoked, poolState, web>>

executeTransaction_stepped(p) ==
  /\ pc[p] = "step"
  /\ \E a \in QueryAnswers(client[p], Last(sent[p])) :
       /\ table' = StoreAfter(client[p], Last(sent[p]).query[1].s, a).table
       /\ txn' = StoreAfter(client[p], Last(sent[p]).query[1].s, a).txn
       /\ IF a.ok THEN Proceed(p, Len(sent[p]) - 1) ELSE Rollback(p, QueryError(a))
  /\ UNCHANGED <<call, client, acquired, released, outcome, built, conv, invoked, poolState, web>>

executeTransaction_committed(p) ==
  /\ pc[p] = "commit"
  /\ \E a \in CommitAnswers(client[p]) :
       /\ table' = StoreAfter(client[p], "COMMIT", a).table
       /\ txn' = StoreAfter(client[p], "COMMIT", a).txn
       /\ IF a.ok
          THEN /\ Settle(p, Returned(<<>>), NoErr)
               /\ UNCHANGED sent
          ELSE /\ Rollback(p, QueryError(a))
               /\ UNCHANGED <<client, released, outcome>>
  /\ UNCHANGED <<call, acquired, built, conv, invoked, poolState, web>>

\* ROLLBACK answered inside the catch block: handleError throws the mapped
\* error, or the rejection of ROLLBACK itself leaves the catch block; the
\* finally block runs in both cases.
executeTransaction_rolledBack(p) ==
  /\ pc[p] = "rollback"
  /\ \E a \in QueryAnswers(client[p], Last(sent[p])) :
       /\ table' = StoreAfter(client[p], Last(sent[p]).query[1].s, a).table
       /\ txn' = StoreAfter(client[p], Last(sent[p]).query[1].s, a).txn
       /\ IF a.ok THEN Fail(p, caught[p])
          ELSE Settle(p, Thrown(QueryError(a)), caught[p])
  /\ UNCHANGED <<call, sent, acquired, built, conv, invoked, poolState, web>>

(***************************************************************************)
(* testConnection and closeConnection                                      *)
(***************************************************************************)
\* What testConnection returns: `{connected: true, ...}` or
\* `{connected: false, error: error.message}`.
Diagnosis(connected, e) ==
  [status |-> IF connected THEN "connected" ELSE "notConnected",
   rows |-> <<>>, error |-> e]

\* `SELECT NOW() as current_time, version() as version`.
ProbeStmt == Stmt(<<Txt("SELECT NOW()")>>, <<>>)

\* The probe reads no table: it is answered, or the connection is lost.
ProbeAnswers ==
  {Answer(TRUE, "", <<>>, table), Answer(FALSE, "", <<>>, table)}

\* testConnection letting the rejection of pool.connect() through.
testConnection_connectFails_raises(p) ==
  /\ pc[p] = "connect"
  /\ call[p].op = "testConnection"
  /\ pc' = [pc EXCEPT ![p] = "done"]
  /\ outcome' = [outcome EXCEPT ![p] = Thrown(ConnectError)]
  /\ UNCHANGED <<call, client, sent, acquired, released, caught, table, txn,
                 built, conv, invoked, poolState, web>>

\* pool.connect() rejects inside the try block: the catch block returns
\* the message.
testConnection_connectFails(p) ==
  /\ pc[p] = "connect"
  /\ call[p].op = "testConnection"
  /\ pc' = [pc EXCEPT ![p] = "done"]
  /\ caught' = [caught EXCEPT ![p] = ConnectError]
  /\ outcome' = [outcome EXCEPT ![p] = Diagnosis(FALSE, ConnectError)]
  /\ UNCHANGED <<call, client, sent, acquired, released, table, txn,
                 built, conv, invoked, poolState, web>>

testConnection_connected(p) ==
  /\ Connected(p, "testConnection")
  /\ client' = [client EXCEPT ![p] = NextIdle]
  /\ Send(p, ProbeStmt, "query")
  /\ UNCHANGED <<call, released, caught, outcome, table, txn, built, conv, invoked, poolState, web>>

\* The probe is answered: `client.release()` and the diagnostics; or it
\* is rejected: the catch block returns the message, and no statement of
\* that path releases the connection.
testConnection_answered(p) ==
  /\ pc[p] = "query"
  /\ call[p].op = "testConnection"
  /\ \E a \in ProbeAnswers :
       IF a.ok
       THEN /\ released' = [released EXCEPT ![p] = Release(released[p])]
            /\ outcome' = [outcome EXCEPT ![p] = Diagnosis(TRUE, NoErr)]
            /\ UNCHANGED <<caught, leaked>>
       ELSE /\ caught' = [caught EXCEPT ![p] = QueryError(a)]
            /\ outcome' = [outcome EXCEPT ![p] = Diagnosis(FALSE, QueryError(a))]
            /\ leaked' = leaked \cup {client[p]}
            /\ UNCHANGED released
  /\ client' = [client EXCEPT ![p] = 0]
  /\ pc' = [pc EXCEPT ![p] = "done"]
  /\ UNCHANGED <<call, sent, acquired, table, txn, built, conv, invoked, ended, others, web>>

\* pool.end() resolves once every connection is back in the pool.
closeConnection_drained(p) ==
  /\ pc[p] = "end"
  /\ Held = 0
  /\ outcome' = [outcome EXCEPT ![p] = Returned(<<>>)]
  /\ pc' = [pc EXCEPT ![p] = "done"]
  /\ UNCHANGED <<call, client, sent, acquired, released, caught, table, txn,
                 built, conv, invoked, poolState, web>>

\* pool.end() rejects, as it does when end() was called before: the catch
\* block logs the message and the function returns.
closeConnection_failed(p) ==
  /\ pc[p] \in {"end", "endTwice"}
  /\ caught' = [caught EXCEPT ![p] = IF pc[p] = "endTwice" THEN EndedTwice
                                     ELSE DrainFailed]
  /\ outcome' = [outcome EXCEPT ![p] = Returned(<<>>)]
  /\ pc' = [pc EXCEPT ![p] = "done"]
  /\ UNCHANGED <<call, client, sent, acquired, released, table, txn,
                 built, conv, invoked, poolState, web>>

(***************************************************************************)
(* The arguments callers pass.                                             *)
(***************************************************************************)
MaxFields == 2
MaxArray == 2

Ids == 1..MaxId

\* The field mappings of at most n entries with distinct keys from ks and
\* values from xs, in every entry order.
RECURSIVE Mappings(_, _, _)
Mappings(ks, xs, n) ==
  IF n = 0 \/ ks = {} THEN {<<>>}
  ELSE {<<>>} \cup
       UNION {{<<Entry(k, x)>> \o m : m \in Mappings(ks \ {k}, xs, n - 1)} :
                <<k, x>> \in ks \X xs}

\* The arrays of at most n different numbers from Ids.
RECURSIVE Arrays(_)
Arrays(n) ==
  IF n = 0 THEN {<<>>}
  ELSE Arrays(n - 1) \cup
       {Append(a, i) : <<a, i>> \in
          {<<b, j>> \in Arrays(n - 1) \X Ids :
             Len(b) = n - 1 /\ \A k \in 1..Len(b) : b[k] # j}}

\* The calls the callers of the running program make.
FieldValues == {Null} \cup {Scalar(i) : i \in Ids}
RowData ==
  {<<>>, <<Entry("id", Scalar(1))>>, <<Entry("status", Scalar(1))>>,
   <<Entry("id", Scalar(2)), Entry("status", Scalar(1))>>}
RowConditions ==
  {<<>>, <<Entry("id", Scalar(1))>>, <<Entry("id", Array(<<1, 2>>))>>,
   <<Entry("status", Null)>>,
   <<Entry("id", Scalar(2)), Entry("status", Scalar(1))>>}
StepLists ==
  {<<ThrowStep>>,
   <<InsertStep(<<Entry("id", Scalar(2))>>)>>,
   <<InsertStep(<<Entry("id", Scalar(2))>>), ThrowStep>>,
   <<InsertStep(<<Entry("id", Scalar(2))>>), InsertStep(<<Entry("id", Scalar(1))>>)>>,
   <<InsertStep(<<Entry("id", Scalar(2))>>), InsertStep(<<Entry("id", Scalar(1))>>),
     ThrowStep>>}

Calls ==
  {Call("addToDB", d, <<>>, DefaultOptions, <<>>) : d \in RowData}
    \cup {Call("getFromDB", <<>>, c, DefaultOptions, <<>>) : c \in RowConditions}
    \cup {Call("updateInDB", d, c, DefaultOptions, <<>>) :
            <<d, c>> \in {<<>>, <<Entry("status", Scalar(1))>>} \X RowConditions}
    \cup {Call("deleteFromDB", <<>>, c, DefaultOptions, <<>>) : c \in RowConditions}
    \cup {Call("executeTransaction", <<>>, <<>>, DefaultOptions, st) :
            st \in {x \in StepLists : Len(x) <= MaxSteps}}
    \cup {Call(op, <<>>, <<>>, DefaultOptions, <<>>) :
            op \in {"testConnection", "closeConnection"}}

\* The arguments the builders are tried on by themselves.
BuilderKeys == {"id", "status", "client"}
ConditionValues ==
  {Null} \cup {Scalar(i) : i \in Ids} \cup {Array(a) : a \in Arrays(MaxArray)}
    \cup {Obj(">", 1), Obj("", 1)}
LimitValues == {Null, Scalar(0), Scalar(2), Scalar(-1)}
OffsetValues == {Null, Scalar(0), Scalar(1)}
AllOptions ==
  {[columns |-> "*", orderBy |-> o, limit |-> l, offset |-> f, operator |-> j] :
     o \in {"", "id"}, l \in LimitValues, f \in OffsetValues, j \in {"AND", "OR"}}

(***************************************************************************)
(* The builders on their own: the statement a function builds for given    *)
(* arguments, once its checks have let them pass.                          *)
(***************************************************************************)
Build(op, data, conditions, options, st) ==
  /\ built' = [op |-> op, data |-> data, conditions |-> conditions,
               options |-> options, stmt |-> st]
  /\ UNCHANGED <<pc, call, client, sent, acquired, released, caught, outcome,
                 table, txn, conv, invoked, poolState, web>>

BuildAdd ==
  /\ built = NoBuild
  /\ \E d \in Mappings(BuilderKeys, FieldValues, MaxFields) :
    Build("addToDB", d, <<>>, DefaultOptions, AddStmt(TableName, d, "*"))

BuildGet ==
  /\ built = NoBuild
  /\ \E c \in Mappings(BuilderKeys, ConditionValues, MaxFields), o \in AllOptions :
    Build("getFromDB", <<>>, c, o, GetStmt(TableName, c, o))

BuildUpdate ==
  /\ built = NoBuild
  /\ \E d \in Mappings(BuilderKeys, FieldValues, MaxFields),
     c \in Mappings(BuilderKeys, ConditionValues, MaxFields) :
    /\ UpdateRejects(d, c) = NoErr
    /\ Build("updateInDB", d, c, DefaultOptions, UpdateStmt(TableName, d, c, "*"))

BuildDelete ==
  /\ built = NoBuild
  /\ \E c \in Mappings(BuilderKeys, ConditionValues, MaxFields) :
    /\ DeleteRejects(c) = NoErr
    /\ Build("deleteFromDB", <<>>, c, DefaultOptions, DeleteStmt(TableName, c, "*"))

(***************************************************************************)
(* POST /api/designs and PUT /api/designs.  A request is served by one     *)
(* caller; design_id is the column id of the table, and the other fields   *)
(* of the request are left out.                                            *)
(***************************************************************************)
MaxRows == 2

\* A request and the position of its handler: the method, the await the
\* handler stands at ("upload", "append", "update", the gateway call
\* "insert" or "change") or "answered", the designId and the range of the
\* body, whether s3Data is there, the sheet row sheetResult names, whether
\* the file multer wrote is on disk, and the status of the response.
NoRequest ==
  [method |-> "", at |-> "none", design |-> 0, range |-> 0, s3 |-> FALSE,
   row |-> 0, tmp |-> FALSE, status |-> 0]

\* `res.status(code).json(...)`, or `res.json(...)` with 200.
Responded(req, code) == [req EXCEPT !.at = "answered", !.status = code]

\* A request arrives at a caller that serves none.
Arrives(p) ==
  /\ http[p].at \in {"none", "answered"}
  /\ pc[p] \in {"idle", "done"}
  /\ invoked < MaxCalls
  /\ invoked' = invoked + 1

\* The handler takes a step that makes no gateway call.
HandlerOnly ==
  UNCHANGED <<pc, call, client, sent, acquired, released, caught, outcome,
              table, txn, built, conv, poolState>>

\* POST: multer's fileFilter refuses a file that is no image (400 from the
\* error middleware); the handler throws on a missing required field
\* (500), answers 400 without a file, and else awaits uploadImageToS3.
post_received(p) ==
  /\ Arrives(p)
  /\ \E d \in Ids, fields \in BOOLEAN, file \in {"none", "image", "other"} :
       LET req == [NoRequest EXCEPT !.method = "POST", !.design = d,
                                    !.tmp = (file = "image")]
       IN http' = [http EXCEPT ![p] =
                     IF file = "other" THEN Responded(req, 400)
                     ELSE IF ~fields THEN Responded(req, 500)
                     ELSE IF file = "none" THEN Responded(req, 400)
                     ELSE [req EXCEPT !.at = "upload"]]
  /\ HandlerOnly
  /\ UNCHANGED <<sheet, bucket>>

\* PUT: the handler throws on a missing field or on updatedData that does
\* not parse (500), awaits uploadImageToS3 when a file came with the
\* request, and else the update of the sheet.
put_received(p) ==
  /\ Arrives(p)
  /\ \E d \in Ids, r \in 1..MaxRows, body \in BOOLEAN,
        file \in {"none", "image", "other"} :
       LET req == [NoRequest EXCEPT !.method = "PUT", !.design = d, !.range = r,
                                    !.tmp = (file = "image")]
       IN http' = [http EXCEPT ![p] =
                     IF file = "other" THEN Responded(req, 400)
                     ELSE IF ~body THEN Responded(req, 500)
                     ELSE IF file = "image" THEN [req EXCEPT !.at = "upload"]
                     ELSE [req EXCEPT !.at = "update"]]
  /\ HandlerOnly
  /\ UNCHANGED <<sheet, bucket>>

\* uploadImageToS3 resolves (object stored, local file unlinked) or
\* throws (local file unlinked in its catch block); the handler goes on
\* to the sheet, or answers 500.
uploaded(p) ==
  /\ http[p].at = "upload"
  /\ \E ok \in BOOLEAN :
       IF ok
       THEN /\ bucket' = bucket + 1
            /\ http' = [http EXCEPT ![p].s3 = TRUE, ![p].tmp = FALSE,
                                    ![p].at = IF http[p].method = "POST"
                                              THEN "append" ELSE "update"]
       ELSE /\ bucket' = bucket
            /\ http' = [http EXCEPT ![p] =
                          Responded([http[p] EXCEPT !.tmp = FALSE], 500)]
  /\ HandlerOnly
  /\ UNCHANGED <<invoked, sheet>>

\* The insert the POST handler makes: `addToDB("sampling_designs", {...})`.
PostInsert(d) ==
  Call("addToDB", <<Entry("id", Scalar(d))>>, <<>>, DefaultOptions, <<>>)

\* addDesign resolves (row appended to the sheet) and the handler calls
\* addToDB, or addDesign throws and the handler answers 500.
post_appended(p) ==
  /\ http[p].at = "append"
  /\ \E ok \in BOOLEAN :
       IF ok
       THEN /\ sheet' = Append(sheet, http[p].design)
            /\ http' = [http EXCEPT ![p].row = Len(sheet) + 1, ![p].at = "insert"]
            /\ Begin(p, PostInsert(http[p].design))
       ELSE /\ sheet' = sheet
            /\ http' = [http EXCEPT ![p] = Responded(http[p], 500)]
            /\ UNCHANGED <<pc, call, sent, acquired, released, caught, outcome, ended>>
  /\ UNCHANGED <<client, table, txn, built, conv, invoked, leaked, others, bucket>>

\* The handler answering a failed insert by taking the row off the sheet.
post_answered_repairs(p) ==
  /\ http[p].at = "insert"
  /\ pc[p] = "done"
  /\ http' = [http EXCEPT ![p] =
                Responded(http[p], IF outcome[p].status = "thrown" THEN 500 ELSE 200)]
  /\ sheet' = IF outcome[p].status = "thrown"
              THEN SubSeq(sheet, 1, http[p].row - 1)
                     \o SubSeq(sheet, http[p].row + 1, Len(sheet))
              ELSE sheet
  /\ HandlerOnly
  /\ UNCHANGED <<invoked, bucket>>

\* addToDB has returned or thrown: `res.json({success: true, ...})`, or
\* the catch block answers 500 with the message.
post_answered(p) ==
  /\ http[p].at = "insert"
  /\ pc[p] = "done"
  /\ http' = [http EXCEPT ![p] =
                Responded(http[p], IF outcome[p].status = "thrown" THEN 500 ELSE 200)]
  /\ HandlerOnly
  /\ UNCHANGED <<invoked, sheet, bucket>>

\* The sheet after values.update wrote row r: the rows between the last
\* row and r are blank (0).
RowWritten(rows, r, d) ==
  [i \in 1..(IF r > Len(rows) THEN r ELSE Len(rows)) |->
     IF i = r THEN d ELSE IF i <= Len(rows) THEN rows[i] ELSE 0]

\* The update the PUT handler makes:
\* `updateInDB("sampling_designs", {...}, {design_id: parsedBody.designId})`.
PutUpdate(d) ==
  Call("updateInDB", <<Entry("status", Scalar(1))>>, <<Entry("id", Scalar(d))>>,
       DefaultOptions, <<>>)

\* values.update resolves (row written at the range) and the handler
\* calls updateInDB, or it throws and the handler answers 500.
put_updated(p) ==
  /\ http[p].at = "update"
  /\ \E ok \in BOOLEAN :
       IF ok
       THEN /\ sheet' = RowWritten(sheet, http[p].range, http[p].design)
            /\ http' = [http EXCEPT ![p].at = "change"]
            /\ Begin(p, PutUpdate(http[p].design))
       ELSE /\ sheet' = sheet
            /\ http' = [http EXCEPT ![p] = Responded(http[p], 500)]
            /\ UNCHANGED <<pc, call, sent, acquired, released, caught, outcome, ended>>
  /\ UNCHANGED <<client, table, txn, built, conv, invoked, leaked, others, bucket>>

\* updateInDB has returned or thrown: 200, or 500 from the catch block.
put_answered(p) ==
  /\ http[p].at = "change"
  /\ pc[p] = "done"
  /\ http' = [http EXCEPT ![p] =
                Responded(http[p], IF outcome[p].status = "thrown" THEN 500 ELSE 200)]
  /\ HandlerOnly
  /\ UNCHANGED <<invoked, sheet, bucket>>

(***************************************************************************)
(* The column helpers of ApparelSheetsManager.  A JavaScript number is an  *)
(* IEEE-754 double: an integer is held exactly only while it fits in the   *)
(* significand, and every arithmetic result is rounded to the nearest      *)
(* double.  A non-negative integral number is modelled by its digits in    *)
(* base Base, least significant first, without leading zeros (0 is <<>>);  *)
(* a string by the sequence of its character codes.                        *)
(***************************************************************************)
Base == 2^24

\* How many binary digits a natural number has.
RECURSIVE Width(_)
Width(n) == IF n = 0 THEN 0 ELSE 1 + Width(n \div 2)

\* The binary digits of one digit in base Base.
LimbBits == Width(Base - 1)

\* The exact sum of two numbers and a carry.
RECURSIVE Add(_, _, _)
Add(x, y, carry) ==
  IF x = <<>> /\ y = <<>>
    THEN IF carry = 0 THEN <<>> ELSE <<carry>>
    ELSE LET a == IF x = <<>> THEN 0 ELSE x[1]
             b == IF y = <<>> THEN 0 ELSE y[1]
             t == a + b + carry
         IN  <<t % Base>> \o Add(IF x = <<>> THEN x ELSE Tail(x),
                                 IF y = <<>> THEN y ELSE Tail(y),
                                 t \div Base)

\* The exact predecessor of a positive number.
RECURSIVE Minus1(_)
Minus1(x) ==
  IF x = <<1>> THEN <<>>
  ELSE IF x[1] > 0 THEN <<x[1] - 1>> \o Tail(x)
  ELSE <<Base - 1>> \o Minus1(Tail(x))

\* The exact product x * 26 + carry.
RECURSIVE Times26(_, _)
Times26(x, carry) ==
  IF x = <<>>
    THEN IF carry = 0 THEN <<>> ELSE <<carry>>
    ELSE <<(x[1] * 26 + carry) % Base>>
           \o Times26(Tail(x), (x[1] * 26 + carry) \div Base)

\* The exact quotient and remainder of x by 26, by long division from the
\* highest digit down: digit i is next, q and r are the quotient and the
\* remainder of the digits above it.
RECURSIVE DivMod26_from(_, _, _, _)
DivMod26_from(x, i, q, r) ==
  IF i = 0
    THEN [q |-> q, r |-> r]
    ELSE IF q = <<>> /\ r * Base + x[i] < 26
           THEN DivMod26_from(x, i - 1, q, r * Base + x[i])
           ELSE DivMod26_from(x, i - 1, <<(r * Base + x[i]) \div 26>> \o q,
                              (r * Base + x[i]) % 26)

\* 2^e.
Pow2(e) == [j \in 1..(e \div LimbBits) |-> 0] \o <<2^(e % LimbBits)>>

\* The binary digits a double's significand holds.
Mantissa == 53

\* The double nearest to the value x + f, where 0 <= f < 1 and f > 0 exactly
\* when sticky: the highest Mantissa binary digits are kept, and the rest
\* rounds to nearest, a tie going to the even significand.  (Of a value of
\* at most Mantissa digits the integral part is returned: where f > 0 the
\* result goes to Math.floor.)
ToDouble(x, sticky) ==
  LET \* how many binary digits x has, and how many of them are dropped
      width  == IF x = <<>> THEN 0
                ELSE LimbBits * (Len(x) - 1) + Width(x[Len(x)])
      e      == width - Mantissa
      \* the binary digit of weight 2^i
      Bit(i) == (x[(i \div LimbBits) + 1] \div 2^(i % LimbBits)) % 2
      \* whether the k lowest binary digits are all 0
      LowZero(k) ==
        /\ \A j \in 1..(k \div LimbBits) : x[j] = 0
        /\ x[(k \div LimbBits) + 1] % 2^(k % LimbBits) = 0
      \* x with its e lowest binary digits set to 0
      kept   == [j \in 1..Len(x) |->
                   IF j <= e \div LimbBits THEN 0
                   ELSE IF j = (e \div LimbBits) + 1
                     THEN x[j] - (x[j] % 2^(e % LimbBits))
                   ELSE x[j]]
      up     == Bit(e - 1) = 1 /\ (sticky \/ ~LowZero(e - 1) \/ Bit(e) = 1)
  IN  IF width <= Mantissa THEN x
      ELSE IF up THEN Add(kept, Pow2(e), 0)
      ELSE kept

\* Math.floor(x / 26): the quotient is rounded to a double first, with one
\* digit in base Base of fraction, and Math.floor then drops the fraction.
FloorDiv26(x) ==
  IF x = <<>>
    THEN x
    ELSE LET d == DivMod26_from(<<0>> \o x, Len(x) + 1, <<>>, 0)
         IN  IF Len(d.q) <= 1 THEN <<>> ELSE Tail(ToDouble(d.q, d.r # 0))

\* "A".charCodeAt(0)
CodeA == 65

\* columnToNumber(column): result after the loop has run for every
\* character, which is result for the characters before the last, times 26,
\* plus the last character's number.
RECURSIVE columnToNumber(_)
columnToNumber(column) ==
  IF column = <<>>
    THEN <<>>
    ELSE ToDouble(
           Add(ToDouble(Times26(columnToNumber(SubSeq(column, 1, Len(column) - 1)), 0),
                        FALSE),
               <<column[Len(column)] - CodeA + 1>>, 0),
           FALSE)

\* numberToColumn with the decrement left out: the letters are taken as the
\* digits 0 to 25 of the number itself.
RECURSIVE numberToColumn_noDecrement(_)
numberToColumn_noDecrement(number) ==
  IF number = <<>>
    THEN <<>>
    ELSE numberToColumn_noDecrement(FloorDiv26(number))
           \o <<CodeA + DivMod26_from(number, Len(number), <<>>, 0).r>>

\* numberToColumn(number): each turn of the while loop puts one letter
\* before those of the turns before it, so the letter of the first turn is
\* the last of the result.
RECURSIVE numberToColumn(_)
numberToColumn(number) ==
  IF number = <<>>
    THEN <<>>
    ELSE LET n == ToDouble(Minus1(number), FALSE)
         IN  numberToColumn(FloorDiv26(n))
               \o <<CodeA + DivMod26_from(n, Len(n), <<>>, 0).r>>

\* No conversion under way.
NoConversion ==
  [from |-> "none", column |-> <<>>, number |-> <<>>, result |-> <<>>, step |-> 0]

(***************************************************************************)
(* Specifications.                                                         *)
(***************************************************************************)
Init ==
  /\ pc = [p \in Procs |-> "idle"]
  /\ call = [p \in Procs |-> NoCall]
  /\ client = [p \in Procs |-> 0]
  /\ sent = [p \in Procs |-> <<>>]
  /\ acquired = [p \in Procs |-> 0]
  /\ released = [p \in Procs |-> 0]
  /\ caught = [p \in Procs |-> NoErr]
  /\ outcome = [p \in Procs |-> Pending]
  /\ table = {}
  /\ txn = [c \in Conns |-> NoTxn]
  /\ built = NoBuild
  /\ invoked = 0
  /\ ended = FALSE
  /\ leaked = {}
  /\ others = 0
  /\ http = [p \in Procs |-> NoRequest]
  /\ sheet = <<>>
  /\ bucket = 0
  /\ conv = NoConversion

Next ==
  \E p \in Procs :
    \/ \E c \in Calls : Invoke(p, c)
    \/ ConnectFails(p)
    \/ addToDB_connected(p)
    \/ addToDB_answered(p)
    \/ getFromDB_connected(p)
    \/ getFromDB_answered(p)
    \/ updateInDB_connected(p)
    \/ updateInDB_answered(p)
    \/ deleteFromDB_connected(p)
    \/ deleteFromDB_answered(p)
    \/ executeTransaction_connected(p)
    \/ executeTransaction_begun(p)
    \/ executeTransaction_stepped(p)
    \/ executeTransaction_committed(p)
    \/ executeTransaction_rolledBack(p)
    \/ testConnection_connectFails(p)
    \/ testConnection_connected(p)
    \/ testConnection_answered(p)
    \/ closeConnection_drained(p)
    \/ closeConnection_failed(p)

Spec == Init /\ [][Next]_vars

(***************************************************************************)
(* The pool under load: the callers run finds while the operations of      *)
(* other callers take connections from the same pool and give them back.   *)
(***************************************************************************)
OtherAcquires ==
  /\ ~ended
  /\ Held < PoolMax
  /\ others' = others + 1
  /\ UNCHANGED <<pc, call, client, sent, acquired, released, caught, outcome,
                 table, txn, built, conv, invoked, ended, leaked, web>>

OtherReleases ==
  /\ others > 0
  /\ others' = others - 1
  /\ UNCHANGED <<pc, call, client, sent, acquired, released, caught, outcome,
                 table, txn, built, conv, invoked, ended, leaked, web>>

NextPool ==
  \/ OtherAcquires
  \/ OtherReleases
  \/ \E p \in Procs :
       \/ \E c \in {x \in Calls : x.op = "getFromDB"} : Invoke(p, c)
       \/ ConnectFails(p)
       \/ getFromDB_connected(p)
       \/ getFromDB_answered(p)

SpecPool == Init /\ [][NextPool]_vars

(***************************************************************************)
(* The server: requests arrive and the handlers run, calling the gateway.  *)
(***************************************************************************)
NextHttp ==
  \E p \in Procs :
    \/ post_received(p)
    \/ put_received(p)
    \/ uploaded(p)
    \/ post_appended(p)
    \/ post_answered(p)
    \/ put_updated(p)
    \/ put_answered(p)
    \/ ConnectFails(p)
    \/ addToDB_connected(p)
    \/ addToDB_answered(p)
    \/ updateInDB_connected(p)
    \/ updateInDB_answered(p)

SpecHttp == Init /\ [][NextHttp]_vars

NextBuild == BuildAdd \/ BuildGet \/ BuildUpdate \/ BuildDelete

SpecBuild == Init /\ [][NextBuild]_vars

(***************************************************************************)
(* The column helpers on their own: a column name or a column number is    *)
(* given, one helper is applied to it and the other to what it returned.   *)
(***************************************************************************)
\* The strings of letters A to Z of at most n characters.
RECURSIVE Words(_)
Words(n) ==
  IF n = 0
    THEN {<<>>}
    ELSE LET shorter == Words(n - 1)
         IN  shorter \cup {Append(w, c) : w \in {v \in shorter : Len(v) = n - 1},
                                          c \in CodeA..(CodeA + 25)}

\* How many letters the column names given have when all names are given,
\* and when one letter is repeated.
MaxLen == 2

MaxLong == 12

\* The largest small column number given, and how far from 2^Mantissa the
\* large ones lie.
MaxNumber == 60

MaxOffset == 3

\* columnToNumber is applied: to the name given, or to the name
\* numberToColumn returned.
columnToNumber_called ==
  /\ \/ conv.from = "column" /\ conv.step = 0
     \/ conv.from = "number" /\ conv.step = 1
  /\ conv' = IF conv.from = "column"
               THEN [conv EXCEPT !.number = columnToNumber(conv.column), !.step = 1]
               ELSE [conv EXCEPT !.result = columnToNumber(conv.column), !.step = 2]
  /\ UNCHANGED <<pc, call, client, sent, acquired, released, caught, outcome,
                 table, txn, built, invoked, poolState, web>>

\* numberToColumn is applied: to the number given, or to the number
\* columnToNumber returned.
numberToColumn_called ==
  /\ \/ conv.from = "number" /\ conv.step = 0
     \/ conv.from = "column" /\ conv.step = 1
  /\ conv' = IF conv.from = "number"
               THEN [conv EXCEPT !.column = numberToColumn(conv.number), !.step = 1]
               ELSE [conv EXCEPT !.result = numberToColumn(conv.number), !.step = 2]
  /\ UNCHANGED <<pc, call, client, sent, acquired, released, caught, outcome,
                 table, txn, built, invoked, poolState, web>>

\* A column name is given: any name of up to MaxLen letters, one letter
\* repeated up to MaxLong times, or a name next to that of 2^Mantissa, the
\* last number up to which every integer is a double.  Or a column number
\* is given: 0 to MaxNumber, or a double around 2^Mantissa (above it only
\* every second integer is a double).
InitColumns ==
  /\ pc = [p \in Procs |-> "idle"]
  /\ call = [p \in Procs |-> NoCall]
  /\ client = [p \in Procs |-> 0]
  /\ sent = [p \in Procs |-> <<>>]
  /\ acquired = [p \in Procs |-> 0]
  /\ released = [p \in Procs |-> 0]
  /\ caught = [p \in Procs |-> NoErr]
  /\ outcome = [p \in Procs |-> Pending]
  /\ table = {}
  /\ txn = [c \in Conns |-> NoTxn]
  /\ built = NoBuild
  /\ invoked = 0
  /\ ended = FALSE
  /\ leaked = {}
  /\ others = 0
  /\ http = [p \in Procs |-> NoRequest]
  /\ sheet = <<>>
  /\ bucket = 0
  /\ LET limit == numberToColumn(Pow2(Mantissa))
         below == Minus1(Pow2(Mantissa))
     IN  \/ \E s \in (Words(MaxLen) \ {<<>>})
                       \cup {[i \in 1..n |-> c] : c \in CodeA..(CodeA + 25),
                                                  n \in 1..MaxLong}
                       \cup {Append(SubSeq(limit, 1, Len(limit) - 1), c) :
                               c \in CodeA..(CodeA + 25)} :
              conv = [NoConversion EXCEPT !.from = "column", !.column = s]
         \/ \E n \in {<<>>} \cup {<<k>> : k \in 1..MaxNumber}
                       \cup {Pow2(Mantissa)}
                       \cup {[below EXCEPT ![1] = Base - k] : k \in 1..MaxOffset}
                       \cup {Add(Pow2(Mantissa), <<2 * k>>, 0) : k \in 1..MaxOffset} :
              conv = [NoConversion EXCEPT !.from = "number", !.number = n]

NextColumns == columnToNumber_called \/ numberToColumn_called

SpecColumns == InitColumns /\ [][NextColumns]_vars

(***************************************************************************)
(* Properties.                                                             *)
(***************************************************************************)

\* The value mapping m holds for key k.
ValueOf(m, k) == m[CHOOSE i \in 1..Len(m) : m[i].k = k].x

\* The position of the last column name before position i of text q.
KeyBefore(q, i) ==
  CHOOSE j \in 1..(i - 1) :
    /\ q[j].n = 0 /\ q[j].s \in BuilderKeys
    /\ \A l \in (j + 1)..(i - 1) : ~(q[l].n = 0 /\ q[l].s \in BuilderKeys)

\* How many placeholders stand between positions j and i of q, i included.
RankFrom(q, j, i) == Cardinality({l \in j..i : q[l].n > 0})

\* The value that belongs to the placeholder at position i of the text of
\* the statement b.stmt, by the clause it stands in: the limit after LIMIT,
\* the offset after OFFSET, the field's value in SET, and in WHERE the
\* condition's value, its j-th element for the j-th placeholder of a
\* membership test, or the value of a structured condition of find.
OwnValue(b, i) ==
  LET q == b.stmt.query
      j == KeyBefore(q, i)
      inSet == IndexOf(q, "SET") > 0 /\ j < IndexOf(q, "WHERE")
      x == ValueOf(b.conditions, q[j].s)
  IN CASE q[i - 1] = Txt("LIMIT") -> b.options.limit
       [] q[i - 1] = Txt("OFFSET") -> b.options.offset
       [] inSet -> ValueOf(b.data, q[j].s)
       [] x.t = "seq" -> Scalar(x.vs[RankFrom(q, j, i)])
       [] x.t = "obj" /\ b.op = "getFromDB" /\ x.operator # "" -> Scalar(x.v)
       [] OTHER -> x

\* C1: in every statement built by find, update and delete the
\* placeholders, read left to right across SET, WHERE, LIMIT and OFFSET,
\* are numbered 1, 2, ..., n without gap or repeat, n is the length of the
\* value list, and the k-th value is the one belonging to the clause that
\* contains placeholder k.
C1_PlaceholdersMatchValues ==
  built.op \in {"getFromDB", "updateInDB", "deleteFromDB"} =>
    LET q == built.stmt.query
        nums == PlaceholderNumbers(q)
    IN /\ Len(nums) = Len(built.stmt.values)
       /\ \A k \in 1..Len(nums) : nums[k] = k
       /\ \A i \in 1..Len(q) :
            q[i].n > 0 => built.stmt.values[q[i].n] = OwnValue(built, i)

\* An UPDATE whose WHERE holds a membership test of two values followed by
\* another condition, after a SET of two fields.
C1_Witness ==
  /\ built.op = "updateInDB"
  /\ Len(built.data) = 2
  /\ Len(built.conditions) = 2
  /\ built.conditions[1].x.t = "seq" /\ Len(built.conditions[1].x.vs) = 2
  /\ built.conditions[2].x.t = "scalar"
  /\ Len(built.stmt.values) = 5

\* The failure kind of the error e a caller observes: the kinds of the
\* errors handleError throws, by their messages, and the kinds of the
\* errors the functions construct, when they reach the caller as they are.
KindOf(e) ==
  IF e.mapped
  THEN CASE e.message = "Record with this identifier already exists" -> "DuplicateRecordError"
         [] e.message = "Referenced record does not exist" -> "DanglingReferenceError"
         [] e.message = "Required field is missing" -> "MissingFieldError"
         [] e.message = "Table does not exist" -> "UnknownTableError"
         [] OTHER -> "OperationFailedError"
  ELSE CASE e \in {UpdateUnscoped, DeleteUnscoped} -> "UnscopedMutationError"
         [] e = NoData -> "ValidationError"
         [] e = NoMatch -> "NoMatchError"
         [] e = NoRecordReturned -> "NoRowsReturnedError"
         [] OTHER -> "none"

Mutating == {"updateInDB", "deleteFromDB"}
Finished(p) == pc[p] = "done"
Unscoped(c) == c.op \in Mutating /\ Len(c.conditions) = 0

\* C2: update and delete called with an empty condition set fail, and the
\* failure the caller observes is of kind UnscopedMutationError, whatever
\* the field mapping contains.
C2_UnscopedKind ==
  \A p \in Procs :
    (Finished(p) /\ Unscoped(call[p]) /\ acquired[p] > 0) =>
      /\ outcome[p].status = "thrown"
      /\ KindOf(outcome[p].error) = "UnscopedMutationError"

\* A statement that changes rows.
IsMutation(st) == st.query[1].s \in {"UPDATE", "DELETE FROM"}

\* C3: a call of update or delete with an empty condition set sends no
\* UPDATE or DELETE statement to the store, and the step in which it is
\* refused leaves the table as it was.
C3_UnscopedNeverSent ==
  [][\A p \in Procs :
       /\ Unscoped(call[p])' =>
            \A i \in 1..Len(sent'[p]) : ~IsMutation(sent'[p][i])
       /\ (Unscoped(call[p]) /\ pc[p] = "connect" /\ pc'[p] # "connect") =>
            /\ table' = table
            /\ txn' = txn
            /\ sent'[p] = <<>>]_vars

\* An unscoped update or delete was refused after it had its connection,
\* on a table that holds rows.
C3_Witness ==
  \E p \in Procs :
    Finished(p) /\ Unscoped(call[p]) /\ acquired[p] = 1 /\ table # {}

\* C4: for a non-empty field mapping insert builds a statement with as
\* many placeholders and as many bound values as fields, column list and
\* value list in mapping order, placeholder N binding the N-th field.
C4_InsertBindsInOrder ==
  (built.op = "addToDB" /\ Len(built.data) > 0) =>
    LET q == built.stmt.query
        cols == InsertColumns(q)
        prms == InsertParams(q)
        n == Len(built.data)
    IN /\ Len(cols) = n /\ Len(prms) = n
       /\ Len(PlaceholderNumbers(q)) = n
       /\ Len(built.stmt.values) = n
       /\ \A i \in 1..n :
            /\ cols[i] = <<Txt(built.data[i].k)>>
            /\ prms[i] = <<Ph(i)>>
            /\ built.stmt.values[i] = built.data[i].x

\* An INSERT of two fields with different values.
C4_Witness ==
  /\ built.op = "addToDB"
  /\ Len(built.data) = 2
  /\ built.data[1].x # built.data[2].x
  /\ Len(built.stmt.values) = 2

\* C5: insert called with an empty field mapping fails with
\* ValidationError without sending any statement to the store.
C5_EmptyInsertRefused ==
  \A p \in Procs :
    (call[p].op = "addToDB" /\ Len(call[p].data) = 0) =>
      /\ sent[p] = <<>>
      /\ (Finished(p) /\ acquired[p] > 0) =>
           /\ outcome[p].status = "thrown"
           /\ KindOf(outcome[p].error) = "ValidationError"

\* C6: update with non-empty fields and conditions that matches zero rows
\* fails, and the failure the caller observes is of kind NoMatchError.
C6_NoMatchKind ==
  \A p \in Procs :
    (Finished(p) /\ call[p].op = "updateInDB" /\ caught[p] = NoMatch) =>
      /\ outcome[p].status = "thrown"
      /\ KindOf(outcome[p].error) = "NoMatchError"

\* The errors client.query rejects with.
DriverErrors == {ConnectionLost} \cup {StoreErr(code) : code \in
  {"23505", "23503", "23502", "42P01", "42601", "08P01", "22P02", "40001"}}

\* C7: when the statement of delete or find is answered, zero rows are no
\* failure: the call fails only with an error of the driver, and
\* otherwise returns the rows, the empty sequence when nothing matched.
C7_ZeroRowsNoFailure ==
  [][\A p \in Procs :
       (pc[p] = "query" /\ call[p].op \in {"deleteFromDB", "getFromDB"}
          /\ pc'[p] = "done") =>
         IF outcome'[p].status = "thrown"
         THEN caught'[p] \in DriverErrors
         ELSE /\ outcome'[p].status = "returned"
              /\ Matching(Last(sent[p]).query, Last(sent[p]).values,
                          Visible(client[p])) = {}
                   => outcome'[p].rows = <<>>]_vars

\* A delete with conditions returned the empty sequence.
C7_Witness ==
  \E p \in Procs :
    /\ Finished(p) /\ call[p].op = "deleteFromDB"
    /\ Len(sent[p]) = 1
    /\ outcome[p] = Returned(<<>>)

\* The message handleError is to throw for an error with code c.
MappedMessage(c) ==
  CASE c = "23505" -> "Record with this identifier already exists"
    [] c = "23503" -> "Referenced record does not exist"
    [] c = "23502" -> "Required field is missing"
    [] c = "42P01" -> "Table does not exist"
    [] OTHER -> "Database operation failed: "

\* C8: for every error that enters a catch block of insert, find, update
\* or delete the error mapping raises: 23505 gives DuplicateRecordError,
\* 23503 DanglingReferenceError, 23502 MissingFieldError, 42P01
\* UnknownTableError, and every other or absent code OperationFailedError
\* carrying the original message.
C8_ErrorMapping ==
  \A p \in Procs :
    (/\ Finished(p) /\ caught[p] # NoErr
     /\ call[p].op \in GatewayOps \ {"executeTransaction"}) =>
      /\ outcome[p].status = "thrown"
      /\ outcome[p].error.mapped
      /\ outcome[p].error.message = MappedMessage(caught[p].code)
      /\ KindOf(outcome[p].error) =
           (CASE caught[p].code = "23505" -> "DuplicateRecordError"
              [] caught[p].code = "23503" -> "DanglingReferenceError"
              [] caught[p].code = "23502" -> "MissingFieldError"
              [] caught[p].code = "42P01" -> "UnknownTableError"
              [] OTHER -> "OperationFailedError")
      /\ caught[p].code \notin {"23505", "23503", "23502", "42P01"} =>
           outcome[p].error.wraps = caught[p].message

\* One call failed on a not-null violation and another on an error without
\* a code.
C8_Witness ==
  \E p, r \in Procs :
    /\ Finished(p) /\ caught[p] = StoreErr("23502")
    /\ Finished(r) /\ caught[r] = NoMatch

\* C9: whatever step of insert, find, update or delete fails, connection
\* acquisition included, the error the caller receives is the output of
\* the error mapping.
C9_EveryFailureMapped ==
  \A p \in Procs :
    (Finished(p) /\ call[p].op \in {"addToDB", "getFromDB", "updateInDB", "deleteFromDB"}
       /\ outcome[p].status = "thrown") =>
      /\ outcome[p].error.mapped
      /\ KindOf(outcome[p].error) # "none"

\* C10: a call that acquired a pooled connection releases it exactly once
\* before it completes, on every exit path, and never releases what it
\* does not hold.
C10_ReleasedExactlyOnce ==
  \A p \in Procs :
    call[p].op \in GatewayOps =>
      /\ released[p] <= acquired[p]
      /\ acquired[p] <= 1
      /\ Finished(p) => (released[p] = acquired[p] /\ client[p] = 0)
      /\ (client[p] # 0) = (acquired[p] = 1 /\ released[p] = 0)

\* The transaction helper completed after its ROLLBACK was rejected.
C10_Witness ==
  \E p \in Procs :
    /\ Finished(p) /\ call[p].op = "executeTransaction"
    /\ Len(sent[p]) > 0
    /\ Last(sent[p]) = Plain("ROLLBACK")
    /\ outcome[p] = Thrown(ConnectionLost)
    /\ released[p] = 1

\* How many placeholders the text q holds.
CountPh(q) == Len(PlaceholderNumbers(q))

\* How many placeholders the first i clauses of cs hold.
RECURSIVE CountUpTo(_, _)
CountUpTo(cs, i) == IF i = 0 THEN 0 ELSE CountUpTo(cs, i - 1) + CountPh(cs[i])

\* The placeholders of the WHERE region of q.
WherePh(q) ==
  IF IndexOf(q, "WHERE") = 0 THEN 0
  ELSE CountPh(Between(q, IndexOf(q, "WHERE"), WhereEnd(q)))

\* C11: in find LIMIT and OFFSET are bound after all condition parameters,
\* limit before offset, as the last entries of the value list; each is
\* appended exactly when a truthy value is supplied for it and otherwise
\* adds neither a clause nor a parameter.
C11_LimitOffsetTrailing ==
  built.op = "getFromDB" =>
    LET q == built.stmt.query
        vals == built.stmt.values
        lim == built.options.limit
        off == built.options.offset
        nl == IF Truthy(lim) THEN 1 ELSE 0
        no == IF Truthy(off) THEN 1 ELSE 0
        nc == WherePh(q)
    IN /\ Len(vals) = nc + nl + no
       /\ (IndexOf(q, "LIMIT") > 0) = Truthy(lim)
       /\ (IndexOf(q, "OFFSET") > 0) = Truthy(off)
       /\ Truthy(lim) =>
            /\ q[IndexOf(q, "LIMIT") + 1] = Ph(nc + 1)
            /\ vals[nc + 1] = lim
            /\ IndexOf(q, "LIMIT") > WhereEnd(q) - 1
       /\ Truthy(off) =>
            /\ q[IndexOf(q, "OFFSET") + 1] = Ph(nc + nl + 1)
            /\ vals[nc + nl + 1] = off
            /\ IndexOf(q, "OFFSET") = Len(q) - 1
       /\ (Truthy(lim) /\ Truthy(off)) =>
            /\ IndexOf(q, "LIMIT") = Len(q) - 3
            /\ SubSeq(vals, Len(vals) - 1, Len(vals)) = <<lim, off>>

\* A find with a membership test, a limit and an offset.
C11_Witness ==
  /\ built.op = "getFromDB"
  /\ Len(built.conditions) = 1
  /\ built.conditions[1].x.t = "seq" /\ Len(built.conditions[1].x.vs) = 2
  /\ built.options.limit = Scalar(2)
  /\ built.options.offset = Scalar(1)
  /\ built.stmt.values = <<Scalar(built.conditions[1].x.vs[1]),
                           Scalar(built.conditions[1].x.vs[2]), Scalar(2), Scalar(1)>>

\* The slots a condition value is to take: none for null, one per element
\* of a sequence, one otherwise.
ExpectedSlots(x) ==
  CASE x.t = "null" -> 0
    [] x.t = "seq" -> Len(x.vs)
    [] OTHER -> 1

RECURSIVE ExpectedUpTo(_, _)
ExpectedUpTo(conditions, i) ==
  IF i = 0 THEN 0
  ELSE ExpectedUpTo(conditions, i - 1) + ExpectedSlots(conditions[i].x)

\* C12: in find a condition whose value is null compiles to an IS NULL
\* clause without placeholder and without entry in the value list,
\* wherever it stands: the placeholders after it continue the numbering
\* of those before it.
C12_NullTakesNoSlot ==
  (built.op = "getFromDB" /\ Len(built.conditions) > 0) =>
    LET q == built.stmt.query
        cs == WhereClauses(q)
        n == Len(built.conditions)
    IN /\ Len(cs) = n
       /\ WherePh(q) = ExpectedUpTo(built.conditions, n)
       /\ \A i \in 1..n :
            built.conditions[i].x.t = "null" =>
              /\ cs[i] = <<Txt(built.conditions[i].k), Txt("IS NULL")>>
              /\ \A j \in (i + 1)..n :
                   \A l \in 1..CountPh(cs[j]) :
                     PlaceholderNumbers(cs[j])[l] =
                       ExpectedUpTo(built.conditions, j - 1) + l

\* A find whose first condition is null and whose second takes a slot.
C12_Witness ==
  /\ built.op = "getFromDB"
  /\ Len(built.conditions) = 2
  /\ built.conditions[1].x.t = "null"
  /\ built.conditions[2].x.t = "scalar"
  /\ Len(built.stmt.values) = 1

\* C13: in find a condition whose value is a sequence of N scalars
\* compiles to one IN clause with N placeholders, takes N slots and
\* appends the N values in sequence order, wherever it stands.
C13_ArrayToMembership ==
  (built.op = "getFromDB" /\ Len(built.conditions) > 0) =>
    LET q == built.stmt.query
        vals == built.stmt.values
        cs == WhereClauses(q)
    IN \A i \in 1..Len(built.conditions) :
         built.conditions[i].x.t = "seq" =>
           LET vs == built.conditions[i].x.vs
               c == CountUpTo(cs, i - 1)
           IN /\ SubSeq(cs[i], 1, 3) =
                   <<Txt(built.conditions[i].k), Txt("IN"), Txt("(")>>
              /\ cs[i][Len(cs[i])] = Txt(")")
              /\ Len(cs[i]) = IF Len(vs) = 0 THEN 4 ELSE 3 + 2 * Len(vs)
              /\ PlaceholderNumbers(cs[i]) = [j \in 1..Len(vs) |-> c + j]
              /\ \A j \in 1..Len(vs) : vals[c + j] = Scalar(vs[j])

\* A find with a plain condition before a membership test of two values.
C13_Witness ==
  /\ built.op = "getFromDB"
  /\ Len(built.conditions) = 2
  /\ built.conditions[1].x.t = "scalar"
  /\ built.conditions[2].x.t = "seq"
  /\ Len(built.conditions[2].x.vs) = 2
  /\ Len(built.stmt.values) = 3

\* C19: every WHERE condition update and delete generate is an IS NULL
\* test (null), an IN test (sequence) or an equality test (anything
\* else), the conditions are joined with AND, and the operator named in a
\* structured condition is not in the statement text.
C19_NoStructuredInMutations ==
  built.op \in {"updateInDB", "deleteFromDB"} =>
    LET q == built.stmt.query
        cs == WhereClauses(q)
    IN /\ Len(cs) = Len(built.conditions)
       /\ IndexOf(q, "OR") = 0
       /\ \A i \in 1..Len(cs) :
            LET x == built.conditions[i].x
            IN /\ cs[i][1] = Txt(built.conditions[i].k)
               /\ CASE x.t = "null" -> cs[i] = <<cs[i][1], Txt("IS NULL")>>
                    [] x.t = "seq" -> cs[i][2] = Txt("IN")
                    [] OTHER -> /\ Len(cs[i]) = 3
                                /\ cs[i][2] = Txt("=")
                                /\ cs[i][3].n > 0
                                /\ built.stmt.values[cs[i][3].n] = x
               /\ (x.t = "obj" /\ x.operator # "") => IndexOf(q, x.operator) = 0

\* An UPDATE with a structured condition that names an operator.
C19_Witness ==
  /\ built.op = "updateInDB"
  /\ \E i \in 1..Len(built.conditions) :
       built.conditions[i].x.t = "obj" /\ built.conditions[i].x.operator = ">"

\* Process p has returned from a call of op.
ReturnedFrom(p, op) ==
  Finished(p) /\ call[p].op = op /\ outcome[p].status = "returned"

\* C14: when an insert has returned row R and nothing but the insert and
\* the find has been called, a find whose conditions are the inserted
\* field values returns exactly one row, that row is R, and its fields
\* hold the inserted values.
C14_RoundTrip ==
  [][\A p, r \in Procs :
       (/\ p # r
        /\ invoked = 2
        /\ ReturnedFrom(p, "addToDB")
        /\ pc[r] = "query"
        /\ call[r].op = "getFromDB"
        /\ call[r].conditions = call[p].data
        /\ ReturnedFrom(r, "getFromDB")') =>
         /\ Len(outcome'[r].rows) = 1
         /\ outcome'[r].rows[1] = outcome[p].rows[1]
         /\ \A i \in 1..Len(call[p].data) :
              outcome'[r].rows[1][call[p].data[i].k] = call[p].data[i].x]_vars

\* An insert of two fields was read back by a find on the same fields.
C14_Witness ==
  \E p, r \in Procs :
    /\ p # r
    /\ ReturnedFrom(p, "addToDB")
    /\ Len(call[p].data) = 2
    /\ ReturnedFrom(r, "getFromDB")
    /\ call[r].conditions = call[p].data
    /\ Len(outcome[r].rows) = 1

\* The failures of a statement that have nothing to do with its key.
Unrelated == {ConnectionLost} \cup {StoreErr(c) : c \in FaultCodes \ {""}}

\* C15: when two callers insert rows with the same value of the unique
\* key id, concurrently or one after the other, both get a connection and
\* neither statement meets an unrelated failure (a lost connection, a
\* missing relation or reference), exactly one insert returns its row,
\* the other fails with DuplicateRecordError, and the table holds exactly
\* one row with that key.
C15_OneInsertWins ==
  \A p, r \in Procs :
    (/\ p # r
     /\ invoked = 2
     /\ Finished(p) /\ Finished(r)
     /\ call[p].op = "addToDB" /\ call[r].op = "addToDB"
     /\ call[p].data = call[r].data
     /\ \E i \in 1..Len(call[p].data) : call[p].data[i].k = "id"
     /\ ValueOf(call[p].data, "id").t = "scalar"
     /\ acquired[p] = 1 /\ acquired[r] = 1
     /\ caught[p] \notin Unrelated /\ caught[r] \notin Unrelated) =>
      /\ \E w, l \in {p, r} :
           /\ w # l
           /\ outcome[w].status = "returned"
           /\ outcome[w].rows[1].id = ValueOf(call[p].data, "id")
           /\ outcome[l].status = "thrown"
           /\ KindOf(outcome[l].error) = "DuplicateRecordError"
      /\ Cardinality({x \in table : x.id = ValueOf(call[p].data, "id")}) = 1

\* Two inserts of the same key have finished, one of them returned.
C15_Witness ==
  \E p, r \in Procs :
    /\ p # r
    /\ ReturnedFrom(p, "addToDB")
    /\ Finished(r) /\ call[r].op = "addToDB"
    /\ call[r].data = call[p].data
    /\ caught[r] = StoreErr("23505")

Diagnostics == {"testConnection", "closeConnection"}

\* C16: a call of testConnection or closeConnection never ends by raising.
\* When pool.connect() or the probe query fails, testConnection returns
\* connected = false with the message of the failure; when pool.end()
\* resolves or rejects, also because the pool was ended before,
\* closeConnection returns.
C16_DiagnosticsNeverRaise ==
  \A p \in Procs :
    (Finished(p) /\ call[p].op \in Diagnostics) =>
      /\ outcome[p].status # "thrown"
      /\ call[p].op = "testConnection" =>
           IF caught[p] = NoErr
           THEN outcome[p] = Diagnosis(TRUE, NoErr)
           ELSE /\ outcome[p].status = "notConnected"
                /\ outcome[p].error.message = caught[p].message
                /\ caught[p].message # ""
      /\ call[p].op = "closeConnection" => outcome[p] = Returned(<<>>)

\* closeConnection returned, was called again after the pool was closed
\* and absorbed the rejection.
C16_Witness ==
  \E p, r \in Procs :
    /\ p # r
    /\ Finished(p) /\ call[p].op = "closeConnection" /\ caught[p] = NoErr
    /\ Finished(r) /\ call[r].op = "closeConnection" /\ caught[r] = EndedTwice
    /\ outcome[r] = Returned(<<>>)

\* The positions of a call between pool.connect() and its release.
Holding == {"query", "begin", "step", "commit", "rollback"}

\* C17: whatever the number of operations in flight, no connection is
\* held by two of them, never more than PoolMax connections are checked
\* out, a call holds a connection only while it is in flight, and none
\* once it has completed.
C17_PoolDiscipline ==
  /\ \A p, r \in Procs : (p # r /\ client[p] # 0) => client[p] # client[r]
  /\ Held <= PoolMax
  /\ Cardinality({p \in Procs : client[p] # 0}) + others <= PoolMax
  /\ \A p \in Procs :
       /\ client[p] # 0 => (pc[p] \in Holding /\ client[p] \in Conns)
       /\ (pc[p] \in {"idle", "done"} /\ call[p].op \notin Diagnostics) =>
            client[p] = 0

\* Every connection of the pool is checked out, two of them by finds of
\* the callers.
C17_Witness ==
  /\ Held = PoolMax
  /\ others = PoolMax - 2
  /\ \E p, r \in Procs :
       /\ p # r
       /\ pc[p] = "query" /\ pc[r] = "query"
       /\ client[p] # 0 /\ client[r] # 0

\* Process p takes a step of a call of the transaction helper.
TxStep(p) ==
  /\ call[p].op = "executeTransaction"
  /\ pc[p] \in Holding
  /\ (pc'[p] # pc[p] \/ sent'[p] # sent[p])

\* C18: the transaction helper is all-or-nothing.  COMMIT is sent only
\* when BEGIN and every step of the caller succeeded, all on the one
\* connection the call holds; when BEGIN, a step or COMMIT fails, ROLLBACK
\* is sent on that connection and the helper raises; no step of the helper
\* but its successful COMMIT changes the committed table, and after a
\* failed call nothing of it is pending on the connection.
C18_AllOrNothing ==
  [][\A p \in Procs :
       TxStep(p) =>
         /\ pc'[p] # "done" => client'[p] = client[p]
         /\ (sent'[p] # sent[p] /\ Last(sent'[p]) = Plain("COMMIT")) =>
              /\ caught'[p] = NoErr
              /\ sent[p][1] = Plain("BEGIN")
              /\ Len(sent[p]) = 1 + Len(call[p].steps)
              /\ \A i \in 1..Len(call[p].steps) :
                   /\ call[p].steps[i].kind = "insert"
                   /\ sent[p][i + 1] = AddStmt(TableName, call[p].steps[i].data, "*")
         /\ (caught'[p] # caught[p]) =>
              /\ sent'[p] = Append(sent[p], Plain("ROLLBACK"))
              /\ pc'[p] = "rollback"
         /\ table' # table =>
              /\ pc[p] = "commit"
              /\ outcome'[p].status = "returned"
              /\ table' = txn[client[p]].work
         /\ (pc'[p] = "done" /\ outcome'[p].status = "thrown") =>
              /\ pc[p] = "rollback"
              /\ Last(sent[p]) = Plain("ROLLBACK")
              /\ table' = table
              /\ txn'[client[p]] = NoTxn
         /\ (pc'[p] = "done" /\ outcome'[p].status # "thrown") =>
              /\ pc[p] = "commit"
              /\ caught[p] = NoErr]_vars

\* A call of the helper whose first step inserted a row and whose second
\* step failed has raised after its ROLLBACK, and the table has no row.
C18_Witness ==
  \E p \in Procs :
    /\ Finished(p)
    /\ call[p].op = "executeTransaction"
    /\ outcome[p].status = "thrown"
    /\ caught[p] = StepFailed
    /\ Len(sent[p]) = 3
    /\ sent[p][2].query[1] = Txt("INSERT INTO")
    /\ Last(sent[p]) = Plain("ROLLBACK")
    /\ table = {}

\* How many INSERT statements the sequence of statements q holds.
RECURSIVE Inserts(_)
Inserts(q) ==
  IF q = <<>> THEN 0
  ELSE (IF q[1].query[1] = Txt("INSERT INTO") THEN 1 ELSE 0) + Inserts(Tail(q))

\* The POST request of p ends on a failed insert.
InsertFailed(p) ==
  /\ http[p].method = "POST"
  /\ http[p].at = "insert"
  /\ http'[p].at = "answered"
  /\ outcome[p].status = "thrown"

C21_ProbeReleases ==
  /\ \A p \in Procs :
       (Finished(p) /\ call[p].op = "testConnection") =>
         (released[p] = acquired[p] /\ client[p] = 0)
  /\ leaked = {}

\* C22: once a POST or PUT request on /api/designs that carried an upload
\* has been answered, with whatever outcome, the file the upload
\* middleware wrote under uploads/ is no longer on disk.
C22_UploadDeleted ==
  \A p \in Procs : http[p].at = "answered" => ~http[p].tmp

\* The number a column name stands for, computed exactly.
RECURSIVE ColumnValue(_)
ColumnValue(column) ==
  IF column = <<>>
    THEN <<>>
    ELSE Add(Times26(ColumnValue(SubSeq(column, 1, Len(column) - 1)), 0),
             <<column[Len(column)] - CodeA + 1>>, 0)

\* Whether a number is at most 2^53: it and its predecessor are doubles
\* (above 2^53 no odd integer is one).
Exact(x) ==
  x = <<>> \/ (ToDouble(x, FALSE) = x /\ ToDouble(Minus1(x), FALSE) = Minus1(x))

\* Whether both helpers have been applied, starting from a name or a number.
RoundTrip(from) == conv.from = from /\ conv.step = 2

\* Whether numberToColumn returned such a name for such a number given.
Names(n, column) ==
  (conv.from = "number" /\ conv.step >= 1 /\ conv.number = n) =>
    conv.column = column

\* C23: the column helpers are inverse to each other:
\* numberToColumn(columnToNumber(s)) is s for every non-empty string s of
\* letters A to Z, columnToNumber(numberToColumn(n)) is n for every integer
\* n >= 1 (1 is A, 26 is Z, 27 is AA), and numberToColumn(0) is the empty
\* string.
C23_Inverse ==
  /\ RoundTrip("column") => conv.result = conv.column
  /\ RoundTrip("number") => conv.result = conv.number
  /\ Names(<<1>>, <<CodeA>>)
  /\ Names(<<26>>, <<CodeA + 25>>)
  /\ Names(<<27>>, <<CodeA, CodeA>>)
  /\ Names(<<>>, <<>>)

\* C23, amended: the same for every non-empty string s of letters whose
\* column number is at most 2^53 (every name of up to 11 letters, and the
\* names of 12 letters up to BKTXHSOGHKKF) and for every integer n from 1
\* to 2^53.
C23_InverseWhileExact ==
  /\ (RoundTrip("column") /\ Exact(ColumnValue(conv.column))) =>
       conv.result = conv.column
  /\ (RoundTrip("number") /\ Exact(conv.number)) => conv.result = conv.number
  /\ Names(<<1>>, <<CodeA>>)
  /\ Names(<<26>>, <<CodeA + 25>>)
  /\ Names(<<27>>, <<CodeA, CodeA>>)
  /\ Names(<<>>, <<>>)

\* The name of column 2^53 has been given to columnToNumber and its result
\* to numberToColumn, which returned the name again.
C23_Witness ==
  /\ RoundTrip("column")
  /\ ColumnValue(conv.column) = Pow2(Mantissa)
  /\ conv.number = Pow2(Mantissa)
  /\ conv.result = conv.column

====
